---------------------------- MODULE Spec2Model ----------------------------
(***************************************************************************)
(* A model of dns-orchestrator's trust and diagnostics core:               *)
(*   - the credential cipher  (dns-orchestrator-core/src/crypto.rs)        *)
(*   - the DNSSEC inspector   (services/toolbox/dnssec.rs)                 *)
(*   - the TLS inspector      (services/toolbox/ssl.rs)                    *)
(* and of the services around it:                                          *)
(*   - batch record deletion  (services/dns_service.rs)                    *)
(*   - domain metadata        (services/domain_metadata_service.rs)        *)
(*   - the provider registry  (traits/provider_registry.rs)                *)
(*                                                                         *)
(* Byte strings are sequences of 0..255.  Base64 text is a sequence of     *)
(* symbol codes: 0..63 are the standard alphabet's digits, PAD is '=',     *)
(* and BADSYM is any character outside the alphabet.                       *)
(*                                                                         *)
(* The cryptographic primitives the code calls (PBKDF2-HMAC-SHA256 and     *)
(* AES-256-GCM) are replaced by keyed polynomial digests with the same     *)
(* interface and the same structure: the HMAC key block is the password    *)
(* zero-padded to the hash's block size, the ciphertext is the plaintext   *)
(* xor a keystream followed by a 16-byte tag over (key, nonce, body).      *)
(* They are assumed collision-free on the inputs explored, which           *)
(* NoDigestCollision checks.                                               *)
(***************************************************************************)
EXTENDS Integers, Sequences, FiniteSets, TLC

VARIABLES
    cpc,        \* cipher scenario: "idle" | "encrypted" | "decrypted"
    enc,        \* the encrypt call made: its inputs, its random draws, its output
    dec,        \* the decrypt call made: its inputs and its outcome
    log,        \* every encrypt call of the process so far, in order
    dpc,               \* dnssec_check: "idle" | "dnskey" | "ds" | "soa" | "done"
    default_config,    \* the name servers ResolverConfig::default() lists
    nameserver,        \* its nameserver argument
    resolver,          \* the name servers the resolver was built with
    used_nameserver,   \* the text reported as DnssecResult.nameserver
    queries,           \* the lookups issued so far, in order, with their outcome
    dnskey_records,
    ds_records,
    rrsig_records,
    dnssec_enabled,
    validation_status,
    dresult,           \* what dnssec_check returned
    parsed,            \* a parse_certificate call: its inputs and the SslCertInfo
    matched,           \* a check_domain_match call on one certificate name
    spc,               \* ssl_check: "idle" | "connect" | "tls_init" | "handshake" |
                       \*   "request" | "certificate" | "probe" | "done"
    build,             \* the TLS feature compiled in: "native-tls" | "rustls"
    sdomain,           \* the domain argument
    peer,              \* how the host at domain:port behaves
    ops,               \* the blocking operations performed so far, with their outcome
    failure,           \* the error text kept for a failed probe
    sresult,           \* the SslCheckResult returned
    caller,            \* per inspection, the future ssl_check returned:
                       \*   "idle" | "awaiting" | "returned" | "dropped"
    worker,            \* per inspection, where its spawn_blocking closure is
    hosts,             \* per inspection, how the host it inspects behaves
    sockets,           \* per inspection, the TcpStream the closure opened
    statuses,          \* per inspection, the connection_status computed
    ran,               \* the blocking operations run so far and the thread of each
    bpc,               \* batch_delete_records: "idle" | "deleting" | "done"
    registered,        \* whether the registry holds a provider for account_id
    record_ids,        \* request.record_ids
    outcomes,          \* per position of record_ids, what delete_record gave
    completed,         \* the positions whose delete future has resolved, in that order
    bresult,           \* what batch_delete_records returned
    store,             \* the repository's entry for one (account, domain) key:
                       \*   << >> or <<metadata>>
    clock,             \* the time, advanced by every call that completes
    last,              \* the last metadata call made in sequence and its outcome
    tasks,             \* metadata calls running concurrently: the call, the
                       \*   metadata each has read, its outcome
    providers,         \* the registry's HashMap: account id -> provider
    lock,              \* its RwLock: the writer and the readers holding it
    clients,           \* per client of the registry, the call it is in
    applied            \* the calls that have acted on the map, in that order

cipherVars == <<cpc, enc, dec, log>>
dnssecVars == <<dpc, default_config, nameserver, resolver, used_nameserver, queries, dnskey_records,
                ds_records, rrsig_records, dnssec_enabled, validation_status, dresult>>
certVars == <<parsed, matched>>
sslVars == <<spc, build, sdomain, peer, ops, failure, sresult>>
toolboxVars == <<cipherVars, dnssecVars, certVars, sslVars>>
poolVars == <<caller, worker, hosts, sockets, statuses, ran>>
batchVars == <<bpc, registered, record_ids, outcomes, completed, bresult>>
metaVars == <<store, clock, last, tasks>>
registryVars == <<providers, lock, clients, applied>>
serviceVars == <<poolVars, batchVars, metaVars, registryVars>>
exceptPool == <<toolboxVars, batchVars, metaVars, registryVars>>
exceptBatch == <<toolboxVars, poolVars, metaVars, registryVars>>
exceptMeta == <<toolboxVars, poolVars, batchVars, registryVars>>
exceptRegistry == <<toolboxVars, poolVars, batchVars, metaVars>>
vars == <<toolboxVars, serviceVars>>

----------------------------------------------------------------------------
(* Bounds of the exploration *)

MaxCalls == 3            \* encrypt calls recorded in log
MaxRecords == 2          \* records in one lookup's response

(* Program constants, crypto.rs:16-19 *)
PBKDF2_ITERATIONS == 100000
SALT_LENGTH == 16
NONCE_LENGTH == 12
KEY_LENGTH == 32

(* Library constants *)
TAG_LENGTH == 16         \* AES-GCM authentication tag
HMAC_BLOCK == 64         \* SHA-256 block size, the HMAC key block
DigestModulus == 8388593 \* prime below 2^23
DigestChunk == 16
PAD == 64                \* '='
BADSYM == 65             \* a character outside the base64 alphabet

----------------------------------------------------------------------------
(* Byte helpers *)

RECURSIVE BitXor(_, _, _)
BitXor(a, b, n) ==
    IF n = 0 THEN 0
    ELSE (((a % 2) + (b % 2)) % 2) + 2 * BitXor(a \div 2, b \div 2, n - 1)

Replace(s, i, v) == [s EXCEPT ![i] = v]

ZeroPad(b, n) == [i \in 1..n |-> IF i <= Len(b) THEN b[i] ELSE 0]

(* A polynomial digest of x, evaluated by Horner's rule in chunks of
   DigestChunk elements (the chunks' digests are combined the same way) *)
ChunkDigest(x, lo, hi, base) ==
    LET Absorb[i \in (lo - 1)..hi] ==
            IF i = lo - 1 THEN 0
            ELSE (Absorb[i - 1] * base + x[i] + 1) % DigestModulus
    IN  Absorb[hi]

Digest(x, base) ==
    LET data == x
        n == Len(data)
        chunks == (n + DigestChunk - 1) \div DigestChunk
        Last(c) == IF c * DigestChunk < n THEN c * DigestChunk ELSE n
        Combine[c \in 0..chunks] ==
            IF c = 0 THEN n
            ELSE (Combine[c - 1] * (base + 2)
                  + ChunkDigest(data, (c - 1) * DigestChunk + 1, Last(c), base) + 1)
                 % DigestModulus
    IN  Combine[chunks]

ToBytes4(h) ==
    << h % 256, (h \div 256) % 256, (h \div 65536) % 256, h \div 16777216 >>

RECURSIVE DigestWords(_, _)
DigestWords(x, words) ==
    IF words = 0 THEN << >>
    ELSE DigestWords(x, words - 1) \o ToBytes4(Digest(x, 2 * words + 1))

(* n bytes (n a multiple of 4) derived from x *)
DigestBytes(x, n) == DigestWords(x, n \div 4)

----------------------------------------------------------------------------
(* base64::engine::general_purpose::STANDARD *)

RECURSIVE Base64Encode(_)
Base64Encode(b) ==
    IF Len(b) = 0 THEN << >>
    ELSE IF Len(b) = 1 THEN
        << b[1] \div 4, (b[1] % 4) * 16, PAD, PAD >>
    ELSE IF Len(b) = 2 THEN
        << b[1] \div 4, (b[1] % 4) * 16 + b[2] \div 16, (b[2] % 16) * 4, PAD >>
    ELSE
        << b[1] \div 4, (b[1] % 4) * 16 + b[2] \div 16,
           (b[2] % 16) * 4 + b[3] \div 64, b[3] % 64 >>
        \o Base64Encode(SubSeq(b, 4, Len(b)))

(* the bytes of one quad of symbols; pads is the number of trailing '=' *)
QuadBytes(q, pads) ==
    IF pads = 0 THEN
        << q[1] * 4 + q[2] \div 16, (q[2] % 16) * 16 + q[3] \div 4,
           (q[3] % 4) * 64 + q[4] >>
    ELSE IF pads = 1 THEN
        << q[1] * 4 + q[2] \div 16, (q[2] % 16) * 16 + q[3] \div 4 >>
    ELSE << q[1] * 4 + q[2] \div 16 >>

RECURSIVE DecodeQuads(_, _)
DecodeQuads(s, pads) ==
    IF Len(s) = 0 THEN << >>
    ELSE IF Len(s) = 4 THEN QuadBytes(s, pads)
    ELSE QuadBytes(SubSeq(s, 1, 4), 0) \o DecodeQuads(SubSeq(s, 5, Len(s)), pads)

(* Strict decoding: canonical padding is required and the unused trailing
   bits of the last digit must be zero. *)
Base64Decode(s) ==
    LET n == Len(s)
        pads == IF n >= 2 /\ s[n] = PAD /\ s[n - 1] = PAD THEN 2
                ELSE IF n >= 1 /\ s[n] = PAD THEN 1 ELSE 0
        wellFormed ==
            /\ n % 4 = 0
            /\ \A i \in 1..(n - pads) : s[i] \in 0..63
            /\ pads = 1 => s[n - 1] % 4 = 0
            /\ pads = 2 => s[n - 2] % 16 = 0
    IN  IF wellFormed THEN [ok |-> TRUE, bytes |-> DecodeQuads(s, pads)]
        ELSE [ok |-> FALSE, bytes |-> << >>]

----------------------------------------------------------------------------
(* PBKDF2-HMAC-SHA256 and AES-256-GCM *)

(* HMAC's key block: a key longer than the block is hashed first, and the
   key is then padded with zero bytes to the block size. *)
HmacKeyBlock(password) ==
    IF Len(password) > HMAC_BLOCK
    THEN ZeroPad(DigestBytes(<<0>> \o password, 32), HMAC_BLOCK)
    ELSE ZeroPad(password, HMAC_BLOCK)

derive_key(password, salt) ==
    DigestBytes(<<1>> \o HmacKeyBlock(password) \o salt \o <<PBKDF2_ITERATIONS>>,
                KEY_LENGTH)

KeyStream(key, nonce, i) == Digest(<<2>> \o key \o nonce \o <<i>>, 3) % 256

Mask(key, nonce, data) ==
    [i \in 1..Len(data) |-> BitXor(data[i], KeyStream(key, nonce, i), 8)]

Tag(key, nonce, body) == DigestBytes(<<3>> \o key \o nonce \o body, TAG_LENGTH)

(* cipher.encrypt(nonce, plaintext): body followed by the tag *)
AeadEncrypt(key, nonce, plaintext) ==
    LET body == Mask(key, nonce, plaintext)
    IN  body \o Tag(key, nonce, body)

(* AeadDecrypt without the comparison of the tag *)
AeadDecrypt_unverified(key, nonce, ciphertext) ==
    LET n == Len(ciphertext) IN
    IF n < TAG_LENGTH THEN [ok |-> FALSE, bytes |-> << >>]
    ELSE [ok |-> TRUE, bytes |-> Mask(key, nonce, SubSeq(ciphertext, 1, n - TAG_LENGTH))]

(* cipher.decrypt(nonce, ciphertext): the tag is verified before anything
   is released *)
AeadDecrypt(key, nonce, ciphertext) ==
    LET n == Len(ciphertext) IN
    IF n < TAG_LENGTH THEN [ok |-> FALSE, bytes |-> << >>]
    ELSE LET body == SubSeq(ciphertext, 1, n - TAG_LENGTH)
             tag  == SubSeq(ciphertext, n - TAG_LENGTH + 1, n)
         IN  IF tag = Tag(key, nonce, body)
             THEN [ok |-> TRUE, bytes |-> Mask(key, nonce, body)]
             ELSE [ok |-> FALSE, bytes |-> << >>]

----------------------------------------------------------------------------
(* crypto.rs: encrypt and decrypt.  The two fill_bytes draws of encrypt are
   parameters, so that the caller of the operator chooses them. *)

Ok(bytes) == [kind |-> "ok", variant |-> "", msg |-> "", bytes |-> bytes]
Err(variant, msg) == [kind |-> "err", variant |-> variant, msg |-> msg, bytes |-> << >>]
Panic == [kind |-> "panic", variant |-> "", msg |-> "", bytes |-> << >>]
NoResult == [kind |-> "none", variant |-> "", msg |-> "", bytes |-> << >>]

DecryptionFailed == "Decryption failed: invalid password or corrupted data"

(* encrypt encoding the salt buffer in the place of the nonce *)
encrypt_encodes_salt_twice(plaintext, password, salt, nonce_bytes) ==
    LET key == derive_key(password, salt)
        ciphertext == AeadEncrypt(key, nonce_bytes, plaintext)
    IN  [salt |-> Base64Encode(salt),
         nonce |-> Base64Encode(salt),
         ciphertext |-> Base64Encode(ciphertext)]

(* encrypt with a constant nonce in the place of the drawn one *)
encrypt_fixed_nonce(plaintext, password, salt, nonce_bytes) ==
    LET key == derive_key(password, salt)
        fixed == ZeroPad(<< >>, NONCE_LENGTH)
        ciphertext == AeadEncrypt(key, fixed, plaintext)
    IN  [salt |-> Base64Encode(salt),
         nonce |-> Base64Encode(fixed),
         ciphertext |-> Base64Encode(ciphertext)]

encrypt(plaintext, password, salt, nonce_bytes) ==
    LET key == derive_key(password, salt)
        ciphertext == AeadEncrypt(key, nonce_bytes, plaintext)
    IN  [salt |-> Base64Encode(salt),
         nonce |-> Base64Encode(nonce_bytes),
         ciphertext |-> Base64Encode(ciphertext)]

(* decrypt reporting a ciphertext too short to hold a tag under its own
   message *)
decrypt_distinguishing(ciphertext_b64, password, salt_b64, nonce_b64) ==
    LET salt == Base64Decode(salt_b64)
        nonce_bytes == Base64Decode(nonce_b64)
        ciphertext == Base64Decode(ciphertext_b64)
    IN  IF ~salt.ok THEN Err("SerializationError", "Invalid salt")
        ELSE IF ~nonce_bytes.ok THEN Err("SerializationError", "Invalid nonce")
        ELSE IF ~ciphertext.ok THEN Err("SerializationError", "Invalid ciphertext")
        ELSE IF Len(nonce_bytes.bytes) # NONCE_LENGTH THEN Panic
        ELSE IF Len(ciphertext.bytes) < TAG_LENGTH
             THEN Err("SerializationError", "Invalid ciphertext")
        ELSE LET key == derive_key(password, salt.bytes)
                 opened == AeadDecrypt(key, nonce_bytes.bytes, ciphertext.bytes)
             IN  IF opened.ok THEN Ok(opened.bytes)
                 ELSE Err("SerializationError", DecryptionFailed)

decrypt(ciphertext_b64, password, salt_b64, nonce_b64) ==
    LET salt == Base64Decode(salt_b64)
        nonce_bytes == Base64Decode(nonce_b64)
        ciphertext == Base64Decode(ciphertext_b64)
    IN  IF ~salt.ok THEN Err("SerializationError", "Invalid salt")
        ELSE IF ~nonce_bytes.ok THEN Err("SerializationError", "Invalid nonce")
        ELSE IF ~ciphertext.ok THEN Err("SerializationError", "Invalid ciphertext")
        ELSE IF Len(nonce_bytes.bytes) # NONCE_LENGTH THEN Panic
        ELSE LET key == derive_key(password, salt.bytes)
                 opened == AeadDecrypt(key, nonce_bytes.bytes, ciphertext.bytes)
             IN  IF opened.ok THEN Ok(opened.bytes)
                 ELSE Err("SerializationError", DecryptionFailed)

----------------------------------------------------------------------------
(* services/toolbox/dnssec.rs: dnssec_check.

   Texts are sequences of one-character strings.  A lookup either fails or
   answers with a non-empty list of records; a record is its type and the
   kind of record data it carries. *)

DecDigits == {"0", "1", "2", "3", "4", "5", "6", "7", "8", "9"}
HexDigits == DecDigits \cup {"a", "b", "c", "d", "e", "f", "A", "B", "C", "D", "E", "F"}

DigitValue(c) ==
    CASE c = "0" -> 0 [] c = "1" -> 1 [] c = "2" -> 2 [] c = "3" -> 3 [] c = "4" -> 4
      [] c = "5" -> 5 [] c = "6" -> 6 [] c = "7" -> 7 [] c = "8" -> 8 [] c = "9" -> 9

(* the pieces of s between the occurrences of sep *)
RECURSIVE SplitOn(_, _)
SplitOn(s, sep) ==
    IF \A i \in 1..Len(s) : s[i] # sep THEN <<s>>
    ELSE LET k == CHOOSE i \in 1..Len(s) :
                     s[i] = sep /\ \A j \in 1..(i - 1) : s[j] # sep
         IN  <<SubSeq(s, 1, k - 1)>> \o SplitOn(SubSeq(s, k + 1, Len(s)), sep)

RECURSIVE DecimalValue(_)
DecimalValue(p) ==
    IF p = << >> THEN 0
    ELSE 10 * DecimalValue(SubSeq(p, 1, Len(p) - 1)) + DigitValue(p[Len(p)])

(* one octet of a dotted quad: 1 to 3 digits, no leading zero, at most 255 *)
IsOctet(p) ==
    /\ Len(p) \in 1..3
    /\ \A i \in 1..Len(p) : p[i] \in DecDigits
    /\ (Len(p) > 1 => p[1] # "0")
    /\ DecimalValue(p) <= 255

ParsesIpv4(s) ==
    LET parts == SplitOn(s, ".")
    IN  Len(parts) = 4 /\ \A i \in 1..4 : IsOctet(parts[i])

IsHextet(p) == Len(p) \in 1..4 /\ \A i \in 1..Len(p) : p[i] \in HexDigits

(* the 16-bit groups a colon-separated run stands for, -1 if it is malformed;
   the last piece may be a dotted quad, which stands for two groups *)
Ipv6Groups(s) ==
    IF s = << >> THEN 0
    ELSE LET parts == SplitOn(s, ":")
             n == Len(parts)
             quadTail == ParsesIpv4(parts[n])
         IN  IF /\ \A i \in 1..(n - 1) : IsHextet(parts[i])
                /\ (quadTail \/ IsHextet(parts[n]))
             THEN IF quadTail THEN n + 1 ELSE n
             ELSE -1

ParsesIpv6(s) ==
    LET gaps == { k \in 1..(Len(s) - 1) : s[k] = ":" /\ s[k + 1] = ":" }
    IN  IF gaps = {} THEN Ipv6Groups(s) = 8
        ELSE /\ Cardinality(gaps) = 1
             /\ LET k == CHOOSE g \in gaps : TRUE
                    left == Ipv6Groups(SubSeq(s, 1, k - 1))
                    right == Ipv6Groups(SubSeq(s, k + 2, Len(s)))
                IN  left >= 0 /\ right >= 0 /\ left + right <= 7

(* str::parse::<IpAddr> succeeds *)
ParsesIpAddr(s) == ParsesIpv4(s) \/ ParsesIpv6(s)

RECURSIVE Join(_, _)
Join(texts, sep) ==
    IF texts = << >> THEN << >>
    ELSE IF Len(texts) = 1 THEN texts[1]
    ELSE texts[1] \o sep \o Join(Tail(texts), sep)

Ip8888 == <<"8", ".", "8", ".", "8", ".", "8">>
Ip8844 == <<"8", ".", "8", ".", "4", ".", "4">>
Ip6_8888 == <<"2", "0", "0", "1", ":", "4", "8", "6", "0", ":", "4", "8", "6", "0",
              ":", ":", "8", "8", "8", "8">>
Ip6_8844 == <<"2", "0", "0", "1", ":", "4", "8", "6", "0", ":", "4", "8", "6", "0",
              ":", ":", "8", "8", "4", "4">>

(* ResolverConfig::default().name_servers(): the library's built-in public
   resolvers, each listed once for UDP and once for TCP *)
DefaultNameServers ==
    <<Ip8888, Ip8888, Ip8844, Ip8844, Ip6_8888, Ip6_8888, Ip6_8844, Ip6_8844>>

SystemDefault == <<"S", "y", "s", "t", "e", "m", " ", "D", "e", "f", "a", "u", "l", "t">>

(* what ResolverConfig::default() may list: the built-in servers, or none *)
DefaultConfigs == { << >>, DefaultNameServers }

get_system_dns ==
    LET servers == default_config
    IN  IF servers = << >> THEN SystemDefault ELSE Join(servers, <<",", " ">>)

(* the nameserver argument: None, or Some(text) *)
None == [some |-> FALSE, text |-> << >>]
Some(text) == [some |-> TRUE, text |-> text]

Nameservers ==
    { None,
      Some(<< >>),                                              \* ""
      Some(<<"1", ".", "1", ".", "1", ".", "1">>),              \* "1.1.1.1"
      Some(<<":", ":", "1">>),                                  \* "::1"
      Some(<<":", ":", "f", "f", "f", "f", ":", "1", ".", "2", ".", "3", ".", "4">>),
      Some(<<"2", "5", "6", ".", "1", ".", "1", ".", "1">>),    \* "256.1.1.1"
      Some(<<"0", "1", ".", "1", ".", "1", ".", "1">>),         \* "01.1.1.1"
      Some(<<"1", ".", "1", ".", "1">>),                        \* "1.1.1"
      Some(<<"1", ".", "1", ".", "1", ".", "1", ":", "5", "3">>),   \* "1.1.1.1:53"
      Some(<<" ", "1", ".", "1", ".", "1", ".", "1">>),         \* " 1.1.1.1"
      Some(<<"n", "s", "1", ".", "a", ".", "b">>),              \* "ns1.a.b"
      Some(<<"1", ":", ":", "2", ":", ":", "3">>) }             \* "1::2::3"

DnssecOk(value) == [kind |-> "ok", variant |-> "", msg |-> << >>, value |-> value]
DnssecErr(variant, msg, ns) ==
    [kind |-> "err", variant |-> variant, msg |-> msg \o ns, value |-> << >>]
NoDnssecResult == [kind |-> "none", variant |-> "", msg |-> << >>, value |-> << >>]

InvalidDnsServer ==
    <<"I", "n", "v", "a", "l", "i", "d", " ", "D", "N", "S", " ", "s", "e", "r", "v", "e",
      "r", " ", "a", "d", "d", "r", "e", "s", "s", ":", " ">>

(* the resolver and the reported nameserver text, or the error *)
SelectResolver_falls_back(ns) ==
    IF ns.some /\ ns.text # << >> /\ ParsesIpAddr(ns.text)
    THEN [ok |-> TRUE, servers |-> <<ns.text, ns.text>>, used_nameserver |-> ns.text,
          err |-> NoDnssecResult]
    ELSE [ok |-> TRUE, servers |-> default_config, used_nameserver |-> get_system_dns,
          err |-> NoDnssecResult]

SelectResolver_reports_input(ns) ==
    IF ns.some
    THEN IF ns.text = << >>
         THEN [ok |-> TRUE, servers |-> default_config, used_nameserver |-> ns.text,
               err |-> NoDnssecResult]
         ELSE IF ParsesIpAddr(ns.text)
         THEN [ok |-> TRUE, servers |-> <<ns.text, ns.text>>,
               used_nameserver |-> ns.text, err |-> NoDnssecResult]
         ELSE [ok |-> FALSE, servers |-> << >>, used_nameserver |-> << >>,
               err |-> DnssecErr("ValidationError", InvalidDnsServer, ns.text)]
    ELSE [ok |-> TRUE, servers |-> default_config,
          used_nameserver |-> get_system_dns, err |-> NoDnssecResult]

SelectResolver(ns) ==
    IF ns.some /\ ns.text # << >>
    THEN IF ParsesIpAddr(ns.text)
         THEN [ok |-> TRUE, servers |-> <<ns.text, ns.text>>,
               used_nameserver |-> ns.text, err |-> NoDnssecResult]
         ELSE [ok |-> FALSE, servers |-> << >>, used_nameserver |-> << >>,
               err |-> DnssecErr("ValidationError", InvalidDnsServer, ns.text)]
    ELSE [ok |-> TRUE, servers |-> default_config,
          used_nameserver |-> get_system_dns, err |-> NoDnssecResult]

(* records a response may carry; tag is the key tag, tagOk whether
   calculate_key_tag succeeds on the key *)
Rec(rtype, data, tag, tagOk) == [rtype |-> rtype, data |-> data, tag |-> tag, tagOk |-> tagOk]

DnskeyAnswers == { Rec("DNSKEY", "DNSKEY", 5, TRUE), Rec("DNSKEY", "DNSKEY", 6, FALSE),
                   Rec("CNAME", "CNAME", 0, TRUE) }
DsAnswers == { Rec("DS", "DS", 5, TRUE), Rec("CNAME", "CNAME", 0, TRUE) }
SoaAnswers == { Rec("SOA", "SOA", 0, TRUE), Rec("RRSIG", "RRSIG", 5, TRUE),
                Rec("SIG", "SIG", 5, TRUE), Rec("RRSIG", "Unknown", 0, TRUE) }

Lists(S) == UNION { [1..n -> S] : n \in 1..MaxRecords }

(* a lookup's outcome: an error, or a list of records *)
LookupError == [ok |-> FALSE, records |-> << >>]
Responses(S) == { LookupError } \cup { [ok |-> TRUE, records |-> l] : l \in Lists(S) }

record_type(record) == record.rtype

DnskeyRecord(record) ==
    [key_tag |-> IF record.tagOk THEN record.tag ELSE 0, protocol |-> 3]
DsRecord(record) == [key_tag |-> record.tag]
RrsigRecord(record) == [key_tag |-> record.tag, from |-> record.data]

(* the records the DNSKEY loop pushes, in order *)
RECURSIVE ParseDnskey(_)
ParseDnskey(records) ==
    IF records = << >> THEN << >>
    ELSE (IF Head(records).data = "DNSKEY" THEN <<DnskeyRecord(Head(records))>> ELSE << >>)
         \o ParseDnskey(Tail(records))

RECURSIVE ParseDs(_)
ParseDs(records) ==
    IF records = << >> THEN << >>
    ELSE (IF Head(records).data = "DS" THEN <<DsRecord(Head(records))>> ELSE << >>)
         \o ParseDs(Tail(records))

RECURSIVE ParseRrsig(_)
ParseRrsig(records) ==
    IF records = << >> THEN << >>
    ELSE (IF /\ record_type(Head(records)) = "RRSIG"
             /\ Head(records).data \in {"RRSIG", "SIG"}
          THEN <<RrsigRecord(Head(records))>> ELSE << >>)
         \o ParseRrsig(Tail(records))

ValidationStatus_either(enabled, dnskeys, dss) ==
    IF enabled
    THEN IF dnskeys # << >> \/ dss # << >> THEN "secure"
         ELSE "insecure"
    ELSE "insecure"

ValidationStatus(enabled, dnskeys, dss) ==
    IF enabled
    THEN IF dnskeys # << >> /\ dss # << >> THEN "secure"
         ELSE IF dnskeys # << >> \/ dss # << >> THEN "indeterminate"
         ELSE "insecure"
    ELSE "insecure"

Query(qtype, response) ==
    [qtype |-> qtype, ok |-> response.ok, records |-> response.records, servers |-> resolver]

InitDnssecVars ==
    /\ dpc = "idle"
    /\ default_config \in DefaultConfigs
    /\ nameserver = None
    /\ resolver = << >>
    /\ used_nameserver = << >>
    /\ queries = << >>
    /\ dnskey_records = << >>
    /\ ds_records = << >>
    /\ rrsig_records = << >>
    /\ dnssec_enabled = FALSE
    /\ validation_status = "indeterminate"
    /\ dresult = NoDnssecResult

(* the call, up to the first lookup *)
Start ==
    /\ dpc = "idle"
    /\ \E ns \in Nameservers :
          LET sel == SelectResolver(ns)
          IN  /\ nameserver' = ns
              /\ resolver' = sel.servers
              /\ used_nameserver' = sel.used_nameserver
              /\ dpc' = IF sel.ok THEN "dnskey" ELSE "done"
              /\ dresult' = IF sel.ok THEN NoDnssecResult ELSE sel.err
    /\ dnskey_records' = << >>
    /\ ds_records' = << >>
    /\ rrsig_records' = << >>
    /\ dnssec_enabled' = FALSE
    /\ validation_status' = "indeterminate"
    /\ UNCHANGED <<default_config, queries, cipherVars, certVars, sslVars, serviceVars>>

LookupDnskey_gives_up ==
    /\ dpc = "dnskey"
    /\ \E response \in Responses(DnskeyAnswers) :
          /\ queries' = Append(queries, Query("DNSKEY", response))
          /\ dnssec_enabled' = (dnssec_enabled \/ response.ok)
          /\ dnskey_records' = dnskey_records \o ParseDnskey(response.records)
          /\ dpc' = IF response.ok THEN "ds" ELSE "done"
          /\ dresult' = IF response.ok THEN dresult
                        ELSE DnssecErr("NetworkError", << >>, << >>)
    /\ UNCHANGED <<default_config, nameserver, resolver, used_nameserver, ds_records, rrsig_records,
                   validation_status, cipherVars, certVars, sslVars, serviceVars>>

(* resolver.lookup(domain, DNSKEY) and the loop over its records *)
LookupDnskey ==
    /\ dpc = "dnskey"
    /\ \E response \in Responses(DnskeyAnswers) :
          /\ queries' = Append(queries, Query("DNSKEY", response))
          /\ dnssec_enabled' = (dnssec_enabled \/ response.ok)
          /\ dnskey_records' = dnskey_records \o ParseDnskey(response.records)
    /\ dpc' = "ds"
    /\ UNCHANGED <<default_config, nameserver, resolver, used_nameserver, ds_records, rrsig_records,
                   validation_status, dresult, cipherVars, certVars, sslVars, serviceVars>>

(* resolver.lookup(domain, DS) and the loop over its records *)
LookupDs ==
    /\ dpc = "ds"
    /\ \E response \in Responses(DsAnswers) :
          /\ queries' = Append(queries, Query("DS", response))
          /\ dnssec_enabled' = (dnssec_enabled \/ response.ok)
          /\ ds_records' = ds_records \o ParseDs(response.records)
    /\ dpc' = "soa"
    /\ UNCHANGED <<default_config, nameserver, resolver, used_nameserver, dnskey_records, rrsig_records,
                   validation_status, dresult, cipherVars, certVars, sslVars, serviceVars>>

(* resolver.soa_lookup(domain), the loop over its records, the verdict and
   the return *)
LookupSoa ==
    /\ dpc = "soa"
    /\ \E response \in Responses(SoaAnswers) :
          LET enabled == dnssec_enabled
                         \/ \E i \in 1..Len(response.records) :
                               record_type(response.records[i]) = "RRSIG"
              rrsigs == rrsig_records \o ParseRrsig(response.records)
              status == ValidationStatus(enabled, dnskey_records, ds_records)
          IN  /\ queries' = Append(queries, Query("SOA", response))
              /\ dnssec_enabled' = enabled
              /\ rrsig_records' = rrsigs
              /\ validation_status' = status
              /\ dresult' = DnssecOk([dnssec_enabled |-> enabled,
                                     dnskey_records |-> dnskey_records,
                                     ds_records |-> ds_records,
                                     rrsig_records |-> rrsigs,
                                     validation_status |-> status,
                                     nameserver |-> used_nameserver,
                                     error |-> None])
    /\ dpc' = "done"
    /\ UNCHANGED <<default_config, nameserver, resolver, used_nameserver, dnskey_records, ds_records,
                   cipherVars, certVars, sslVars, serviceVars>>

NextDnssec == Start \/ LookupDnskey \/ LookupDs \/ LookupSoa

----------------------------------------------------------------------------
(* Inputs *)

LongPassword == [i \in 1..(HMAC_BLOCK + 1) |-> 97]   \* longer than the HMAC block
Passwords == { <<97>>, <<97, 0>>, <<98>>, LongPassword }    \* "a", "a\0", "b", "aa..a"
Plaintexts == { << >>, <<7>>, <<104, 105>> }
RngSeeds == { 0, 3 }

(* what rand::thread_rng().fill_bytes can leave in an n-byte array *)
RandomBytes(n) == { [i \in 1..n |-> (seed * 85 * i) % 256] : seed \in RngSeeds }

NoEnc == [plaintext |-> << >>, password |-> << >>, rngSalt |-> << >>,
          rngNonce |-> << >>, salt |-> << >>, nonce |-> << >>, ciphertext |-> << >>]
NoDec == [ciphertext |-> << >>, password |-> << >>, salt |-> << >>, nonce |-> << >>,
          how |-> "none", result |-> NoResult]

Call(plaintext, password, rngSalt, rngNonce) ==
    LET out == encrypt(plaintext, password, rngSalt, rngNonce)
    IN  [plaintext |-> plaintext, password |-> password,
         rngSalt |-> rngSalt, rngNonce |-> rngNonce,
         salt |-> out.salt, nonce |-> out.nonce, ciphertext |-> out.ciphertext]

InitCipherVars ==
    /\ cpc = "idle"
    /\ enc = NoEnc
    /\ dec = NoDec
    /\ log = << >>

(* one encrypt call *)
Encrypt ==
    /\ cpc = "idle"
    /\ \E m \in Plaintexts, pw \in Passwords,
          rs \in RandomBytes(SALT_LENGTH), rn \in RandomBytes(NONCE_LENGTH) :
          enc' = Call(m, pw, rs, rn)
    /\ cpc' = "encrypted"
    /\ UNCHANGED <<dec, log, dnssecVars, certVars, sslVars, serviceVars>>

Decrypted(ciphertext_b64, password, salt_b64, nonce_b64, how) ==
    /\ dec' = [ciphertext |-> ciphertext_b64, password |-> password,
               salt |-> salt_b64, nonce |-> nonce_b64, how |-> how,
               result |-> decrypt(ciphertext_b64, password, salt_b64, nonce_b64)]
    /\ cpc' = "decrypted"
    /\ UNCHANGED <<enc, log, dnssecVars, certVars, sslVars, serviceVars>>

(* decrypt of the stored triple, with any password *)
DecryptStored ==
    /\ cpc = "encrypted"
    /\ \E pw \in Passwords :
          Decrypted(enc.ciphertext, pw, enc.salt, enc.nonce, "stored")

Field(call, f) ==
    IF f = "salt" THEN call.salt
    ELSE IF f = "nonce" THEN call.nonce ELSE call.ciphertext

WithField(call, f, text) ==
    IF f = "salt" THEN [call EXCEPT !.salt = text]
    ELSE IF f = "nonce" THEN [call EXCEPT !.nonce = text]
    ELSE [call EXCEPT !.ciphertext = text]

Fields == {"salt", "nonce", "ciphertext"}
TamperSymbols == {0, 1, PAD, BADSYM}
TamperDeltas == {1, 128}

(* decrypt, with the right password, of the stored triple after one
   character of one of its three strings was replaced *)
DecryptTamperedSymbol ==
    /\ cpc = "encrypted"
    /\ \E f \in Fields :
       \E pos \in 1..Len(Field(enc, f)), sym \in TamperSymbols :
          /\ Field(enc, f)[pos] # sym
          /\ LET t == WithField(enc, f, Replace(Field(enc, f), pos, sym))
             IN  Decrypted(t.ciphertext, enc.password, t.salt, t.nonce, "symbol")

(* decrypt, with the right password, of the stored triple after one byte of
   the decoded salt, nonce or ciphertext was changed and the bytes encoded
   again *)
DecryptTamperedByte ==
    /\ cpc = "encrypted"
    /\ \E f \in Fields :
       LET raw == Base64Decode(Field(enc, f)).bytes IN
       \E pos \in 1..Len(raw), delta \in TamperDeltas :
          LET changed == Replace(raw, pos, (raw[pos] + delta) % 256)
              t == WithField(enc, f, Base64Encode(changed))
          IN  Decrypted(t.ciphertext, enc.password, t.salt, t.nonce, "byte")

(* strings a caller may pass that no encrypt call produced *)
Strings ==
    { << >>,                       \* ""
      <<0, 0, 0, 0>>,              \* "AAAA"
      <<0, 0, 0>>,                 \* "AAA"
      <<BADSYM, 0, 0, 0>> }        \* "!AAA"

(* decrypt of any combination of the stored strings and foreign ones *)
DecryptArbitrary ==
    /\ cpc = "encrypted"
    /\ \E c \in Strings \cup {enc.ciphertext}, pw \in Passwords,
          st \in Strings \cup {enc.salt}, nc \in Strings \cup {enc.nonce} :
          /\ <<c, st, nc>> # <<enc.ciphertext, enc.salt, enc.nonce>>
          /\ Decrypted(c, pw, st, nc, "arbitrary")

NextCipher == Encrypt \/ DecryptStored \/ DecryptTamperedSymbol
              \/ DecryptTamperedByte \/ DecryptArbitrary

----------------------------------------------------------------------------
(* services/toolbox/ssl.rs: parse_certificate, check_domain_match and
   matches_domain.

   Instants are seconds; a certificate is the fields the code reads from it.
   A Common Name attribute is Some(text) when as_str() succeeds on it and None
   when its value is no borrowable string. *)

SECONDS_PER_DAY == 86400

(* integer division truncating toward zero *)
TruncDiv(a, b) == IF a >= 0 THEN a \div b ELSE -((-a) \div b)

(* TimeDelta::num_days *)
num_days(duration) == TruncDiv(duration, SECONDS_PER_DAY)

Lower(c) == CASE c = "A" -> "a" [] c = "B" -> "b" [] c = "C" -> "c" [] OTHER -> c

to_lowercase(s) == [i \in 1..Len(s) |-> Lower(s[i])]

strip_prefix(s, prefix) ==
    IF Len(s) >= Len(prefix) /\ SubSeq(s, 1, Len(prefix)) = prefix
    THEN Some(SubSeq(s, Len(prefix) + 1, Len(s)))
    ELSE None

strip_suffix(s, suffix) ==
    IF Len(s) >= Len(suffix) /\ SubSeq(s, Len(s) - Len(suffix) + 1, Len(s)) = suffix
    THEN Some(SubSeq(s, 1, Len(s) - Len(suffix)))
    ELSE None

Contains(s, c) == \E i \in 1..Len(s) : s[i] = c

matches_domain_any_depth(query, pattern) ==
    \/ query = pattern
    \/ LET suffix == strip_prefix(pattern, <<"*", ".">>)
       IN  /\ suffix.some
           /\ LET prefix == strip_suffix(query, suffix.text)
              IN  /\ prefix.some
                  /\ prefix.text # << >>
                  /\ prefix.text[Len(prefix.text)] = "."

matches_domain(query, pattern) ==
    \/ query = pattern
    \/ LET suffix == strip_prefix(pattern, <<"*", ".">>)
       IN  /\ suffix.some
           /\ LET prefix == strip_suffix(query, suffix.text)
              IN  /\ prefix.some
                  /\ prefix.text # << >>
                  /\ prefix.text[Len(prefix.text)] = "."
                  /\ ~Contains(SubSeq(prefix.text, 1, Len(prefix.text) - 1), ".")

check_domain_match(query, cn, san) ==
    LET query_lower == to_lowercase(query)
    IN  \/ cn.some /\ matches_domain(query_lower, to_lowercase(cn.text))
        \/ \E i \in 1..Len(san) : matches_domain(query_lower, to_lowercase(san[i]))

(* the DNSName entries of the subjectAltName extension, in order *)
RECURSIVE DnsNames(_)
DnsNames(general_names) ==
    IF general_names = << >> THEN << >>
    ELSE (IF Head(general_names).kind = "DNS" THEN <<Head(general_names).text>> ELSE << >>)
         \o DnsNames(Tail(general_names))

CertChainItem(cert) == [subject |-> cert.subject, issuer |-> cert.issuer, is_ca |-> cert.is_ca]

first(s) == IF s = << >> THEN None ELSE Some(s[1])
(* iter_common_name().next().and_then(|cn| cn.as_str().ok()) *)
first_common_name(cert) == IF cert.cns = << >> THEN None ELSE cert.cns[1]

parse_certificate_prefers_san(query, cert, now) ==
    LET not_after == IF cert.formats THEN cert.not_after ELSE now
        days_remaining == num_days(not_after - now)
        is_expired == days_remaining < 0
        san == DnsNames(cert.general_names)
        cn == first_common_name(cert)
        cert_domain == IF san # << >> THEN san[1]
                       ELSE IF cn.some THEN cn.text ELSE query
        domain_matches == check_domain_match(query, cn, san)
    IN  [domain |-> cert_domain, subject |-> cert.subject, issuer |-> cert.issuer,
         days_remaining |-> days_remaining, is_expired |-> is_expired,
         is_valid |-> (~is_expired /\ domain_matches), san |-> san,
         certificate_chain |-> <<CertChainItem(cert)>>]

parse_certificate(query, cert, now) ==
    LET not_after == IF cert.formats THEN cert.not_after ELSE now
        days_remaining == num_days(not_after - now)
        is_expired == days_remaining < 0
        san == DnsNames(cert.general_names)
        cn == first_common_name(cert)
        cert_domain == IF cn.some THEN cn.text
                       ELSE IF first(san).some THEN first(san).text ELSE query
        domain_matches == check_domain_match(query, cn, san)
    IN  [domain |-> cert_domain, subject |-> cert.subject, issuer |-> cert.issuer,
         days_remaining |-> days_remaining, is_expired |-> is_expired,
         is_valid |-> (~is_expired /\ domain_matches), san |-> san,
         certificate_chain |-> <<CertChainItem(cert)>>]

(* names: labels joined by dots *)
MaxLabels == 3
Labels == { <<"a">>, <<"A">>, <<"a", "a">>, <<"*">>, << >> }
Names == { Join(ls, <<".">>) : ls \in UNION { [1..n -> Labels] : n \in 1..MaxLabels } }

NameAB == <<"a", ".", "b">>            \* "a.b"
NameUpper == <<"A", ".", "B">>         \* "A.B"
NameCB == <<"c", ".", "b">>            \* "c.b"
NameWildB == <<"*", ".", "b">>         \* "*.b"
NameDeep == <<"a", ".", "c", ".", "b">>    \* "a.c.b"

CertQueries == { NameAB, NameUpper, NameCB, NameDeep }

(* the subject's Common Name attributes, in order *)
CommonNames ==
    { << >>, <<Some(NameAB)>>, <<Some(NameWildB)>>, <<Some(NameCB), Some(NameAB)>>,
      <<None>>, <<None, Some(NameAB)>> }

DnsName(text) == [kind |-> "DNS", text |-> text]
IpAddress(text) == [kind |-> "IP", text |-> text]

(* the entries of the subjectAltName extension, in order *)
GeneralNames ==
    { << >>, <<DnsName(NameAB)>>, <<IpAddress(Ip8888), DnsName(NameWildB)>>,
      <<DnsName(NameCB), DnsName(NameUpper)>> }

Now == 1000000

(* valid_to minus the current time: from ten days ago to ten days ahead *)
ExpiryOffsets ==
    { -10 * SECONDS_PER_DAY, -SECONDS_PER_DAY - 1, -SECONDS_PER_DAY, -SECONDS_PER_DAY + 1,
      -3600, -1, 0, 1, SECONDS_PER_DAY - 1, SECONDS_PER_DAY, 10 * SECONDS_PER_DAY }

Certificate(subject, issuer, is_ca, cns, general_names, not_after, formats) ==
    [subject |-> subject, issuer |-> issuer, is_ca |-> is_ca, cns |-> cns,
     general_names |-> general_names, not_after |-> not_after, formats |-> formats]

Certificates ==
    { Certificate("leaf", "ca", FALSE, cns, gns, Now + off, TRUE) :
          cns \in CommonNames, gns \in GeneralNames, off \in ExpiryOffsets }
    \cup { Certificate("leaf", "ca", FALSE, <<Some(NameAB)>>, << >>, Now + off, FALSE) :
               off \in {-10 * SECONDS_PER_DAY, SECONDS_PER_DAY} }

NoParsed ==
    [query |-> << >>, cert |-> Certificate("", "", FALSE, << >>, << >>, 0, TRUE), now |-> 0,
     called |-> FALSE,
     info |-> parse_certificate(<< >>, Certificate("", "", FALSE, << >>, << >>, 0, TRUE), 0)]
NoMatched == [query |-> << >>, name |-> << >>, called |-> FALSE, result |-> FALSE]

InitCertVars ==
    /\ parsed = NoParsed
    /\ matched = NoMatched

(* one parse_certificate call *)
ParseCertificate ==
    /\ ~parsed.called /\ ~matched.called
    /\ \E query \in CertQueries, cert \in Certificates :
          parsed' = [query |-> query, cert |-> cert, now |-> Now, called |-> TRUE,
                     info |-> parse_certificate(query, cert, Now)]
    /\ UNCHANGED <<matched, cipherVars, dnssecVars, sslVars, serviceVars>>

(* one check_domain_match call on a certificate that carries one name *)
MatchName ==
    /\ ~parsed.called /\ ~matched.called
    /\ \E query \in Names, name \in Names :
          matched' = [query |-> query, name |-> name, called |-> TRUE,
                      result |-> check_domain_match(query, Some(name), << >>)]
    /\ UNCHANGED <<parsed, cipherVars, dnssecVars, sslVars, serviceVars>>

NextCert == ParseCertificate \/ MatchName

----------------------------------------------------------------------------
(* services/toolbox/ssl.rs: ssl_check and check_http_connection, in the
   native-tls build and in the rustls build.

   The peer is the host at domain:port: whether it accepts TCP connections,
   whether it completes a TLS handshake, how its certificate fares under
   local trust validation, the certificates it presents (leaf first), and the
   operation, if any, at which it stops responding. *)

MaxChain == 2
PROBE_BUFFER == 128
DEFAULT_PORT == 443

Builds == { "native-tls", "rustls" }

BlockingOps ==
    { "connect", "handshake", "tls_write", "tls_read",
      "probe_connect", "probe_write", "probe_read" }

(* the operations the code bounds: set_read_timeout on the TLS connection's
   socket, set_read_timeout and set_write_timeout on the probe's socket *)
TimedOps == { "handshake", "tls_read", "probe_write", "probe_read" }

Presented(cert, der_ok) == [cert |-> cert, der_ok |-> der_ok]

LeafCertificate ==
    Certificate("leaf", "ca", FALSE, <<Some(NameAB)>>, <<DnsName(NameAB)>>,
                Now + 10 * SECONDS_PER_DAY, TRUE)
CaCertificate ==
    Certificate("ca", "root", TRUE, << >>, << >>, Now + 10 * SECONDS_PER_DAY, TRUE)

PresentedCerts ==
    { Presented(LeafCertificate, TRUE), Presented(LeafCertificate, FALSE),
      Presented(CaCertificate, TRUE) }

Chains == UNION { [1..n -> PresentedCerts] : n \in 0..MaxChain }

Trusts == { "trusted", "self-signed", "expired", "unknown-ca" }

Peer(tcp, tls, trust, chain, silent_at) ==
    [tcp |-> tcp, tls |-> tls, trust |-> trust, chain |-> chain, silent_at |-> silent_at]

Peers ==
    { Peer("refuses", "none", "trusted", << >>, "never") }
    \cup { Peer("accepts", tls, "trusted", << >>, silent) :
               tls \in {"none", "aborts"}, silent \in BlockingOps \cup {"never"} }
    \cup { Peer("accepts", "completes", trust, chain, silent) :
               trust \in Trusts, chain \in Chains, silent \in BlockingOps \cup {"never"} }

NameInvalid == <<"a", " ", "b">>       \* "a b"
SslDomains == { NameAB, NameInvalid }

(* ServerName::try_from succeeds *)
IsServerName(domain) ==
    /\ domain # << >>
    /\ \A i \in 1..Len(domain) : domain[i] \in {"a", "b", "c", "A", "B", "C", ".", "-"}

SslCheckResult(connection_status, cert_info, error) ==
    [domain |-> sdomain, port |-> DEFAULT_PORT, connection_status |-> connection_status,
     cert_info |-> cert_info, error |-> error]
NoSslResult ==
    [domain |-> << >>, port |-> 0, connection_status |-> "", cert_info |-> << >>,
     error |-> << >>]

Op(op, ok) == [op |-> op, ok |-> ok]

(* the operation never returns: the peer is silent and nothing bounds it *)
Blocks(op) == peer.silent_at = op /\ op \notin TimedOps
Silent(op) == peer.silent_at = op

HttpPrefix == <<"H", "T", "T", "P", "/">>

(* what the probe's one read can leave: an error, or the bytes received *)
ReadError == [ok |-> FALSE, bytes |-> << >>]
ProbeReads ==
    { ReadError }
    \cup { [ok |-> TRUE, bytes |-> b] :
               b \in { << >>, <<"H", "T">>, HttpPrefix, HttpPrefix \o <<"1", ".", "1">>,
                       <<"S", "S", "H", "-", "2">>, <<" ">> \o HttpPrefix } }

(* the buffer of n zero bytes after a read put bytes at its start *)
Fill(bytes, n) == [i \in 1..n |-> IF i <= Len(bytes) THEN bytes[i] ELSE "NUL"]

starts_with(s, prefix) == Len(s) >= Len(prefix) /\ SubSeq(s, 1, Len(prefix)) = prefix

check_http_connection_any_reply(connected, written, read) ==
    connected /\ written /\ read.ok

check_http_connection(connected, written, read) ==
    /\ connected
    /\ written
    /\ read.ok
    /\ starts_with(Fill(read.bytes, PROBE_BUFFER), HttpPrefix)

(* the handshake's certificate verification passes *)
Verifies == build = "native-tls" \/ peer.trust = "trusted"

(* the chain entries the rustls build collects *)
RECURSIVE ChainItems(_)
ChainItems(chain) ==
    IF chain = << >> THEN << >>
    ELSE (IF Head(chain).der_ok THEN <<CertChainItem(Head(chain).cert)>> ELSE << >>)
         \o ChainItems(Tail(chain))

InitSslVars ==
    /\ spc = "idle"
    /\ build = "native-tls"
    /\ sdomain = << >>
    /\ peer = Peer("refuses", "none", "trusted", << >>, "never")
    /\ ops = << >>
    /\ failure = ""
    /\ sresult = NoSslResult

(* the call, for one build, one domain and one peer *)
SslStart ==
    /\ spc = "idle"
    /\ \E b \in Builds, d \in SslDomains, p \in Peers :
          /\ build' = b
          /\ sdomain' = d
          /\ peer' = p
    /\ spc' = "connect"
    /\ UNCHANGED <<ops, failure, sresult, cipherVars, dnssecVars, certVars, serviceVars>>

(* TcpStream::connect *)
SslConnect ==
    /\ spc = "connect"
    /\ ~Blocks("connect")
    /\ LET ok == peer.tcp = "accepts" /\ ~Silent("connect")
       IN  /\ ops' = Append(ops, Op("connect", ok))
           /\ spc' = IF ok THEN "tls_init" ELSE "done"
           /\ sresult' = IF ok THEN sresult
                         ELSE SslCheckResult("failed", << >>, <<"connect failed">>)
    /\ UNCHANGED <<build, sdomain, peer, failure, cipherVars, dnssecVars, certVars, serviceVars>>

(* native-tls: TlsConnector::builder().build();
   rustls: the server name and ClientConnection::new *)
SslTlsInit ==
    /\ spc = "tls_init"
    /\ IF build = "native-tls"
       THEN \E built \in BOOLEAN :
               /\ spc' = IF built THEN "handshake" ELSE "done"
               /\ sresult' = IF built THEN sresult
                             ELSE SslCheckResult("failed", << >>, <<"TLS init failed">>)
               /\ failure' = failure
       ELSE IF ~IsServerName(sdomain)
       THEN /\ spc' = "done"
            /\ sresult' = SslCheckResult("failed", << >>, <<"invalid domain">>)
            /\ failure' = failure
       ELSE \E created \in BOOLEAN :
               /\ spc' = IF created THEN "handshake" ELSE "probe"
               /\ failure' = IF created THEN failure ELSE "TLS init failed"
               /\ sresult' = sresult
    /\ UNCHANGED <<build, sdomain, peer, ops, cipherVars, dnssecVars, certVars, serviceVars>>

(* native-tls: connector.connect; rustls: the write_all that drives the
   handshake *)
SslHandshake ==
    /\ spc = "handshake"
    /\ ~Blocks("handshake")
    /\ LET ok == peer.tls = "completes" /\ ~Silent("handshake") /\ Verifies
       IN  /\ ops' = Append(ops, Op("handshake", ok))
           /\ spc' = IF ok THEN "request" ELSE "probe"
           /\ failure' = IF ok THEN failure
                         ELSE IF build = "native-tls" THEN "handshake failed, not HTTP"
                         ELSE "handshake failed"
    /\ UNCHANGED <<build, sdomain, peer, sresult, cipherVars, dnssecVars, certVars, serviceVars>>

(* the HEAD request over TLS and the read of its answer, outcomes ignored;
   in the rustls build the request was written by the handshake step *)
SslRequest ==
    /\ spc = "request"
    /\ IF build = "native-tls"
       THEN /\ ~Blocks("tls_write")
            /\ \E written \in BOOLEAN, read \in BOOLEAN :
                  ops' = ops \o <<Op("tls_write", written /\ ~Silent("tls_write")),
                                  Op("tls_read", read /\ ~Silent("tls_read"))>>
       ELSE \E read \in BOOLEAN :
               ops' = Append(ops, Op("tls_read", read /\ ~Silent("tls_read")))
    /\ spc' = "certificate"
    /\ UNCHANGED <<build, sdomain, peer, failure, sresult, cipherVars, dnssecVars, certVars, serviceVars>>

(* native-tls: peer_certificate, to_der, from_der, parse_certificate;
   rustls: peer_certificates, from_der, parse_certificate, the chain *)
SslCertificate ==
    /\ spc = "certificate"
    /\ IF build = "native-tls"
       THEN \E found \in BOOLEAN, encoded \in BOOLEAN :
               /\ ops' = ops \o <<Op("peer_certificate", found), Op("to_der", encoded)>>
               /\ sresult' =
                  IF ~found \/ peer.chain = << >>
                  THEN SslCheckResult("https", << >>, <<"no certificate">>)
                  ELSE IF ~encoded
                  THEN SslCheckResult("https", << >>, <<"certificate encoding failed">>)
                  ELSE IF ~peer.chain[1].der_ok
                  THEN SslCheckResult("https", << >>, <<"certificate parse failed">>)
                  ELSE SslCheckResult("https",
                          <<parse_certificate(sdomain, peer.chain[1].cert, Now)>>, << >>)
       ELSE /\ ops' = Append(ops, Op("peer_certificates", TRUE))
            /\ sresult' =
               IF peer.chain = << >>
               THEN SslCheckResult("https", << >>, <<"no certificate">>)
               ELSE IF ~peer.chain[1].der_ok
               THEN SslCheckResult("https", << >>, <<"certificate parse failed">>)
               ELSE SslCheckResult("https",
                       <<[parse_certificate(sdomain, peer.chain[1].cert, Now)
                            EXCEPT !.certificate_chain = ChainItems(peer.chain)]>>, << >>)
    /\ spc' = "done"
    /\ UNCHANGED <<build, sdomain, peer, failure, cipherVars, dnssecVars, certVars, serviceVars>>

SslProbe_reports_error ==
    /\ spc = "probe"
    /\ ~Blocks("probe_connect")
    /\ \E connected \in BOOLEAN, sent \in BOOLEAN, read \in ProbeReads :
          LET c == connected /\ ~Silent("probe_connect")
              w == sent /\ ~Silent("probe_write")
              r == IF Silent("probe_read") THEN ReadError ELSE read
              http == check_http_connection(c, w, r)
          IN  /\ ops' = ops \o <<Op("probe_connect", c)>>
                            \o (IF c THEN <<Op("probe_write", w)>> ELSE << >>)
                            \o (IF c /\ w THEN <<[op |-> "probe_read", ok |-> r.ok,
                                                  bytes |-> r.bytes]>> ELSE << >>)
              /\ sresult' = SslCheckResult(IF http THEN "http" ELSE "failed", << >>,
                                           <<failure>>)
    /\ spc' = "done"
    /\ UNCHANGED <<build, sdomain, peer, failure, cipherVars, dnssecVars, certVars, serviceVars>>

(* check_http_connection and the return that follows it *)
SslProbe ==
    /\ spc = "probe"
    /\ ~Blocks("probe_connect")
    /\ \E connected \in BOOLEAN, sent \in BOOLEAN, read \in ProbeReads :
          LET c == connected /\ ~Silent("probe_connect")
              w == sent /\ ~Silent("probe_write")
              r == IF Silent("probe_read") THEN ReadError ELSE read
              http == check_http_connection(c, w, r)
          IN  /\ ops' = ops \o <<Op("probe_connect", c)>>
                            \o (IF c THEN <<Op("probe_write", w)>> ELSE << >>)
                            \o (IF c /\ w THEN <<[op |-> "probe_read", ok |-> r.ok,
                                                  bytes |-> r.bytes]>> ELSE << >>)
              /\ sresult' = IF http THEN SslCheckResult("http", << >>, << >>)
                            ELSE SslCheckResult("failed", << >>, <<failure>>)
    /\ spc' = "done"
    /\ UNCHANGED <<build, sdomain, peer, failure, cipherVars, dnssecVars, certVars, serviceVars>>

NextSsl == SslStart \/ SslConnect \/ SslTlsInit \/ SslHandshake \/ SslRequest
           \/ SslCertificate \/ SslProbe

----------------------------------------------------------------------------
(* services/toolbox/ssl.rs: ssl_check as a task.  The async function hands
   one closure to tokio::task::spawn_blocking (ssl.rs:45, ssl.rs:167) and
   awaits its JoinHandle (ssl.rs:152-155, ssl.rs:306-309).  Everything between
   the two, check_http_connection included, is the body of that closure
   and runs on a thread of the runtime's blocking pool.  Several inspections
   may be in flight; the caller of one may drop its future while it waits. *)

MaxInspections == 2          \* inspections in flight
MaxBlockingThreads == 2      \* threads of the blocking pool

Inspections == 1..MaxInspections

(* how the inspected host behaves: it speaks TLS; it speaks plain HTTP; it
   accepts the connection and never sends a byte; it refuses the connection;
   it answers nothing at all, not even the connection attempt *)
Hosts == { "https", "plain", "mute", "refused", "unresponsive" }

(* the closures occupying a thread of the blocking pool *)
Running == { i \in Inspections : worker[i] \in { "connect", "handshake", "request", "probe" } }

(* a blocking pool of one thread *)
ThreadAvailable_serial == Cardinality(Running) < 1

(* spawn_blocking queues the closure until the pool has a thread for it *)
ThreadAvailable == Cardinality(Running) < MaxBlockingThreads

(* the thread the closure of inspection i runs on *)
ThreadOf(i) == IF i \in Running THEN "blocking" ELSE "scheduler"

(* TcpStream::connect has no timeout; the handshake and the probe's read
   time out *)
Stalls(i) == worker[i] = "connect" /\ hosts[i] = "unresponsive"

InitPoolVars ==
    /\ caller = [i \in Inspections |-> "idle"]
    /\ worker = [i \in Inspections |-> "none"]
    /\ hosts = [i \in Inspections |-> "none"]
    /\ sockets = [i \in Inspections |-> "none"]
    /\ statuses = [i \in Inspections |-> ""]
    /\ ran = {}

(* ssl_check up to its await: the closure is handed to the pool *)
SslCheckCall(i) ==
    /\ caller[i] = "idle"
    /\ \E h \in Hosts : hosts' = [hosts EXCEPT ![i] = h]
    /\ caller' = [caller EXCEPT ![i] = "awaiting"]
    /\ worker' = [worker EXCEPT ![i] = "queued"]
    /\ UNCHANGED <<sockets, statuses, ran, exceptPool>>

(* a pool thread picks the closure up *)
WorkerStart(i) ==
    /\ worker[i] = "queued"
    /\ ThreadAvailable
    /\ worker' = [worker EXCEPT ![i] = "connect"]
    /\ UNCHANGED <<caller, hosts, sockets, statuses, ran, exceptPool>>

(* TcpStream::connect, and the early return when it fails *)
WorkerConnect(i) ==
    /\ worker[i] = "connect"
    /\ ~Stalls(i)
    /\ ran' = ran \cup { <<"connect", ThreadOf(i)>> }
    /\ IF hosts[i] = "refused"
       THEN /\ worker' = [worker EXCEPT ![i] = "exit"]
            /\ statuses' = [statuses EXCEPT ![i] = "failed"]
            /\ UNCHANGED sockets
       ELSE /\ worker' = [worker EXCEPT ![i] = "handshake"]
            /\ sockets' = [sockets EXCEPT ![i] = "open"]
            /\ UNCHANGED statuses
    /\ UNCHANGED <<caller, hosts, exceptPool>>

(* the TLS handshake over the stream; a mute host fails it by read timeout *)
WorkerHandshake(i) ==
    /\ worker[i] = "handshake"
    /\ ran' = ran \cup { <<"handshake", ThreadOf(i)>> }
    /\ worker' = [worker EXCEPT ![i] = IF hosts[i] = "https" THEN "request" ELSE "probe"]
    /\ UNCHANGED <<caller, hosts, sockets, statuses, exceptPool>>

(* the request written and read over TLS, the certificate parsed, and the
   return of the closure, which drops the stream *)
WorkerRequest(i) ==
    /\ worker[i] = "request"
    /\ ran' = ran \cup { <<"tls_write", ThreadOf(i)>>, <<"tls_read", ThreadOf(i)>> }
    /\ worker' = [worker EXCEPT ![i] = "exit"]
    /\ sockets' = [sockets EXCEPT ![i] = "closed"]
    /\ statuses' = [statuses EXCEPT ![i] = "https"]
    /\ UNCHANGED <<caller, hosts, exceptPool>>

(* check_http_connection after a failed handshake, and the return of the
   closure, which drops the stream *)
WorkerProbe(i) ==
    /\ worker[i] = "probe"
    /\ ran' = ran \cup { <<"probe_connect", ThreadOf(i)>>, <<"probe_write", ThreadOf(i)>>,
                         <<"probe_read", ThreadOf(i)>> }
    /\ worker' = [worker EXCEPT ![i] = "exit"]
    /\ sockets' = [sockets EXCEPT ![i] = "closed"]
    /\ statuses' = [statuses EXCEPT ![i] = IF hosts[i] = "plain" THEN "http" ELSE "failed"]
    /\ UNCHANGED <<caller, hosts, exceptPool>>

(* the JoinHandle resolves and ssl_check returns *)
SslCheckReturn(i) ==
    /\ caller[i] = "awaiting"
    /\ worker[i] = "exit"
    /\ caller' = [caller EXCEPT ![i] = "returned"]
    /\ UNCHANGED <<worker, hosts, sockets, statuses, ran, exceptPool>>

(* the caller drops the future, and with it the JoinHandle: the closure is
   detached and runs on *)
SslCheckDrop(i) ==
    /\ caller[i] = "awaiting"
    /\ caller' = [caller EXCEPT ![i] = "dropped"]
    /\ UNCHANGED <<worker, hosts, sockets, statuses, ran, exceptPool>>

WorkerStep(i) ==
    \/ WorkerStart(i)
    \/ WorkerConnect(i)
    \/ WorkerHandshake(i)
    \/ WorkerRequest(i)
    \/ WorkerProbe(i)
    \/ SslCheckReturn(i)

(* inspections whose callers wait for the result *)
NextAwaited == \E i \in Inspections : SslCheckCall(i) \/ WorkerStep(i)

NextPool == NextAwaited \/ \E i \in Inspections : SslCheckDrop(i)

----------------------------------------------------------------------------
(* services/dns_service.rs: batch_delete_records.  One delete_record future
   per requested id is built and the futures are awaited together with
   join_all, which resolves them in any order and yields their results in
   the order of the futures. *)

MaxIds == 3                  \* record ids in one request

RecordIds == { "r1", "r2" }
Requests == UNION { [1..n -> RecordIds] : n \in 0..MaxIds }

(* what provider.delete_record gives: Ok(()) or an error, rendered *)
DeleteOutcomes == { "ok", "record not found", "rate limited" }

BatchDeleteFailure(record_id, reason) == [record_id |-> record_id, reason |-> reason]
BatchDeleteResult(success_count, failures) ==
    [success_count |-> success_count, failed_count |-> Len(failures), failures |-> failures]

BatchOk(value) == [kind |-> "ok", variant |-> "", value |-> value]
BatchErr(variant) == [kind |-> "err", variant |-> variant, value |-> << >>]
NoBatchResult == [kind |-> "none", variant |-> "", value |-> << >>]

(* the loop over the results of join_all: the count of the Ok results *)
RECURSIVE SuccessCount(_)
SuccessCount(results) ==
    IF results = << >> THEN 0
    ELSE (IF Head(results).reason = "ok" THEN 1 ELSE 0) + SuccessCount(Tail(results))

(* the loop over the results of join_all: one failure per Err result *)
RECURSIVE Failures(_)
Failures(results) ==
    IF results = << >> THEN << >>
    ELSE (IF Head(results).reason = "ok" THEN << >>
          ELSE <<BatchDeleteFailure(Head(results).record_id, Head(results).reason)>>)
         \o Failures(Tail(results))

(* the results in the order the futures resolved *)
JoinAll_as_completed ==
    [k \in 1..Len(completed) |->
        [record_id |-> record_ids[completed[k]], reason |-> outcomes[completed[k]]]]

(* join_all: the results in the order of the futures *)
JoinAll ==
    [k \in 1..Len(record_ids) |-> [record_id |-> record_ids[k], reason |-> outcomes[k]]]

InitBatchVars ==
    /\ bpc = "idle"
    /\ registered = FALSE
    /\ record_ids = << >>
    /\ outcomes = << >>
    /\ completed = << >>
    /\ bresult = NoBatchResult

(* get_provider and the construction of the delete futures *)
BatchCall ==
    /\ bpc = "idle"
    /\ \E found \in BOOLEAN, ids \in Requests :
          /\ registered' = found
          /\ record_ids' = ids
          /\ outcomes' = [k \in 1..Len(ids) |-> "pending"]
          /\ bpc' = IF found THEN "deleting" ELSE "done"
          /\ bresult' = IF found THEN NoBatchResult ELSE BatchErr("AccountNotFound")
    /\ completed' = << >>
    /\ UNCHANGED exceptBatch

(* one delete_record future resolves *)
DeleteResolves ==
    /\ bpc = "deleting"
    /\ \E k \in 1..Len(record_ids), outcome \in DeleteOutcomes :
          /\ outcomes[k] = "pending"
          /\ outcomes' = [outcomes EXCEPT ![k] = outcome]
          /\ completed' = Append(completed, k)
    /\ UNCHANGED <<bpc, registered, record_ids, bresult, exceptBatch>>

(* join_all resolves, the results are counted and the result returned *)
BatchCollect ==
    /\ bpc = "deleting"
    /\ Len(completed) = Len(record_ids)
    /\ bresult' = BatchOk(BatchDeleteResult(SuccessCount(JoinAll), Failures(JoinAll)))
    /\ bpc' = "done"
    /\ UNCHANGED <<registered, record_ids, outcomes, completed, exceptBatch>>

NextBatch == BatchCall \/ DeleteResolves \/ BatchCollect

----------------------------------------------------------------------------
(* services/domain_metadata_service.rs: toggle_favorite, add_tag, remove_tag
   and set_tags on the metadata of one (account, domain) key.  Each reads the
   stored metadata with get_metadata, changes its copy and writes the whole
   of it back with save_metadata; nothing is held between the two awaits.
   The repository keeps what save gives it and returns it on find_by_key.
   Tags are texts: sequences of characters. *)

MaxOps == 4                  \* metadata calls made in sequence
MAX_TAGS == 10
MAX_TAG_LENGTH == 50

TagAlphabet == <<" ", "a", "b", "c", "d", "e", "f", "g", "h", "i", "j", "k", "x">>

(* the code of a character: strings are ordered by their bytes *)
Ord(c) == CHOOSE k \in 1..Len(TagAlphabet) : TagAlphabet[k] = c

(* Ord for String: lexicographic on the bytes *)
TagLess(x, y) ==
    \E k \in 1..(Len(y)) :
        /\ k <= Len(x) + 1
        /\ SubSeq(x, 1, k - 1) = SubSeq(y, 1, k - 1)
        /\ (k = Len(x) + 1 \/ Ord(x[k]) < Ord(y[k]))

(* str::trim *)
trim(text) ==
    LET inked == { k \in 1..Len(text) : text[k] # " " }
    IN  IF inked = {} THEN << >>
        ELSE SubSeq(text, CHOOSE k \in inked : \A m \in inked : k <= m,
                          CHOOSE k \in inked : \A m \in inked : k >= m)

(* Vec::contains *)
contains(list, x) == \E k \in 1..Len(list) : list[k] = x

(* Vec::retain(|t| t != x) *)
RECURSIVE retain(_, _)
retain(list, x) ==
    IF list = << >> THEN << >>
    ELSE (IF Head(list) # x THEN <<Head(list)>> ELSE << >>) \o retain(Tail(list), x)

(* x placed before the first element of a sorted list that is greater *)
RECURSIVE sorted_insert(_, _)
sorted_insert(list, x) ==
    IF list = << >> THEN <<x>>
    ELSE IF TagLess(x, Head(list)) THEN <<x>> \o list
    ELSE <<Head(list)>> \o sorted_insert(Tail(list), x)

(* the list as it is pushed, without sorting *)
sort_keeps_order(list) == list

(* Vec::sort *)
RECURSIVE sort(_)
sort(list) ==
    IF list = << >> THEN << >>
    ELSE sorted_insert(sort(SubSeq(list, 1, Len(list) - 1)), list[Len(list)])

(* Vec::dedup: consecutive repeats removed *)
RECURSIVE dedup(_)
dedup(list) ==
    IF Len(list) <= 1 THEN list
    ELSE IF list[1] = list[2] THEN dedup(Tail(list))
    ELSE <<list[1]>> \o dedup(Tail(list))

(* map(|t| t.trim().to_string()) *)
trim_all(list) == [k \in 1..Len(list) |-> trim(list[k])]

DomainMetadata(is_favorite, tags, favorited_at, updated_at) ==
    [is_favorite |-> is_favorite, tags |-> tags, favorited_at |-> favorited_at,
     updated_at |-> updated_at]

(* find_by_key(..).unwrap_or_default(): metadata that was never stored is not
   a favorite, has no tags and no favorited_at *)
get_metadata(t) ==
    IF store = << >> THEN DomainMetadata(FALSE, << >>, << >>, t) ELSE store[1]

(* DomainMetadata::touch *)
touch(metadata, t) == [metadata EXCEPT !.updated_at = t]

(* the outcome of a call: what it returns and, if it saves, what it saves *)
MetaOk(value, save) == [kind |-> "ok", variant |-> "", value |-> value, save |-> save]
MetaErr(variant) == [kind |-> "err", variant |-> variant, value |-> << >>, save |-> << >>]
NoOutcome == [kind |-> "none", variant |-> "", value |-> << >>, save |-> << >>]

(* toggle_favorite stamping favorited_at at every transition to favorite *)
toggle_favorite_restamps(metadata, t) ==
    LET flipped == [metadata EXCEPT !.is_favorite = ~metadata.is_favorite]
        stamped == IF flipped.is_favorite
                   THEN [flipped EXCEPT !.favorited_at = <<t>>] ELSE flipped
    IN  MetaOk(stamped.is_favorite, <<touch(stamped, t)>>)

(* toggle_favorite, given the metadata it read *)
toggle_favorite(metadata, t) ==
    LET flipped == [metadata EXCEPT !.is_favorite = ~metadata.is_favorite]
        stamped == IF flipped.is_favorite /\ flipped.favorited_at = << >>
                   THEN [flipped EXCEPT !.favorited_at = <<t>>] ELSE flipped
    IN  MetaOk(stamped.is_favorite, <<touch(stamped, t)>>)

(* add_tag, given the metadata it read *)
add_tag(metadata, tag, t) ==
    LET trimmed == trim(tag)
    IN  IF trimmed = << >> THEN MetaErr("ValidationError")
        ELSE IF Len(trimmed) > MAX_TAG_LENGTH THEN MetaErr("ValidationError")
        ELSE IF contains(metadata.tags, trimmed) THEN MetaOk(metadata.tags, << >>)
        ELSE IF Len(metadata.tags) >= MAX_TAGS THEN MetaErr("ValidationError")
        ELSE LET tags == sort(Append(metadata.tags, trimmed))
             IN  MetaOk(tags, <<touch([metadata EXCEPT !.tags = tags], t)>>)

(* remove_tag, given the metadata it read *)
remove_tag(metadata, tag, t) ==
    LET tags == retain(metadata.tags, tag)
    IN  MetaOk(tags, <<touch([metadata EXCEPT !.tags = tags], t)>>)

(* set_tags, given the metadata it read *)
set_tags(metadata, tags, t) ==
    IF \E k \in 1..Len(tags) : trim(tags[k]) = << >> THEN MetaErr("ValidationError")
    ELSE IF \E k \in 1..Len(tags) : Len(trim(tags[k])) > MAX_TAG_LENGTH
    THEN MetaErr("ValidationError")
    ELSE IF Len(tags) > MAX_TAGS THEN MetaErr("ValidationError")
    ELSE LET cleaned_tags == dedup(sort(retain(trim_all(tags), << >>)))
         IN  MetaOk(cleaned_tags, <<touch([metadata EXCEPT !.tags = cleaned_tags], t)>>)

(* Inputs *)
Xs(n) == [k \in 1..n |-> "x"]
Letters(n) == [k \in 1..n |-> <<TagAlphabet[n + 2 - k]>>]

TagInputs ==
    { <<"a">>, <<"b">>, <<" ", "a", " ">>, <<"a", "b">>, <<"k">>, << >>, <<" ">>,
      Xs(MAX_TAG_LENGTH), Xs(MAX_TAG_LENGTH + 1), <<" ">> \o Xs(MAX_TAG_LENGTH) \o <<" ">> }

TagListInputs ==
    { << >>, << <<"b">>, <<"a">>, <<"b">> >>, << <<" ", "a", " ">>, <<"a">> >>,
      << <<"a">>, <<" ">> >>, << Xs(MAX_TAG_LENGTH + 1) >>,
      Letters(MAX_TAGS), Letters(MAX_TAGS + 1),
      [k \in 1..(MAX_TAGS + 1) |-> <<"a">>] }

MetaCall(op, tag, tags) == [op |-> op, tag |-> tag, tags |-> tags]
NoCall == MetaCall("none", << >>, << >>)

(* the handler of a call, given the metadata it read *)
Handle(call, metadata, t) ==
    CASE call.op = "toggle_favorite" -> toggle_favorite(metadata, t)
      [] call.op = "add_tag" -> add_tag(metadata, call.tag, t)
      [] call.op = "remove_tag" -> remove_tag(metadata, call.tag, t)
      [] call.op = "set_tags" -> set_tags(metadata, call.tags, t)

(* save_metadata, when the call reaches it *)
Saved(outcome) == IF outcome.save = << >> THEN store ELSE outcome.save

Tasks == 1..2
TaskIdle == [pc |-> "idle", call |-> NoCall, read |-> << >>, outcome |-> NoOutcome]

InitMetaVars ==
    /\ store = << >>
    /\ clock = 0
    /\ last = [call |-> NoCall, outcome |-> NoOutcome]
    /\ tasks = [p \in Tasks |-> TaskIdle]

(* calls are made one after the other: none is in flight *)
NoneInFlight == clock < MaxOps /\ \A p \in Tasks : tasks[p].pc = "idle"

(* get_metadata, the handler's change, save_metadata and the return *)
Returns(call) ==
    /\ LET outcome == Handle(call, get_metadata(clock + 1), clock + 1)
       IN  /\ store' = Saved(outcome)
           /\ last' = [call |-> call, outcome |-> outcome]
    /\ clock' = clock + 1
    /\ UNCHANGED <<tasks, exceptMeta>>

ToggleFavorite ==
    /\ NoneInFlight
    /\ Returns(MetaCall("toggle_favorite", << >>, << >>))

AddTag ==
    /\ NoneInFlight
    /\ \E tag \in TagInputs : Returns(MetaCall("add_tag", tag, << >>))

RemoveTag ==
    /\ NoneInFlight
    /\ \E tag \in TagInputs : Returns(MetaCall("remove_tag", tag, << >>))

SetTags ==
    /\ NoneInFlight
    /\ \E tags \in TagListInputs : Returns(MetaCall("set_tags", << >>, tags))

NextMeta == ToggleFavorite \/ AddTag \/ RemoveTag \/ SetTags

(* calls made while another is in flight *)
RaceCalls ==
    { MetaCall("toggle_favorite", << >>, << >>),
      MetaCall("add_tag", <<"a">>, << >>), MetaCall("add_tag", <<"b">>, << >>),
      MetaCall("add_tag", << >>, << >>),
      MetaCall("remove_tag", <<"a">>, << >>),
      MetaCall("set_tags", << >>, << <<"b">>, <<"a">> >>) }

(* a call up to the return of get_metadata *)
BeginCall(p) ==
    /\ tasks[p].pc = "idle"
    /\ \E call \in RaceCalls :
          tasks' = [tasks EXCEPT ![p] = [pc |-> "read", call |-> call,
                                         read |-> <<get_metadata(clock + 1)>>,
                                         outcome |-> NoOutcome]]
    /\ UNCHANGED <<store, clock, last, exceptMeta>>

(* the rest of the call: the change, save_metadata and the return *)
FinishCall(p) ==
    /\ tasks[p].pc = "read"
    /\ LET outcome == Handle(tasks[p].call, tasks[p].read[1], clock + 1)
       IN  /\ store' = Saved(outcome)
           /\ tasks' = [tasks EXCEPT ![p].pc = "done", ![p].outcome = outcome]
    /\ clock' = clock + 1
    /\ UNCHANGED <<last, exceptMeta>>

NextMetaRace == \E p \in Tasks : BeginCall(p) \/ FinishCall(p)

----------------------------------------------------------------------------
(* traits/provider_registry.rs: InMemoryProviderRegistry, and the registry
   of the same code in src-actix-web/src/state/mod.rs.  The map sits behind
   a tokio RwLock; each method takes the lock (write for register and
   unregister, read for get and list_account_ids), does one operation on the
   map and drops the guard at the end of the statement. *)

MaxRegistryOps == 3          \* registry calls made in all

Clients == { "c1", "c2" }
(* the arguments of the calls: account ids and providers *)
Registrations == { <<"acc1", "p1">>, <<"acc1", "p2">>, <<"acc2", "p1">> }
Unregistered == { "acc1" }
Queried == { "acc1" }

(* HashMap::insert *)
insert(map, account_id, provider) ==
    [k \in DOMAIN map \cup { account_id } |-> IF k = account_id THEN provider ELSE map[k]]

(* HashMap::remove *)
remove(map, account_id) == [k \in DOMAIN map \ { account_id } |-> map[k]]

(* a lookup that finds nothing *)
lookup_misses(map, account_id) == << >>

(* HashMap::get(..).cloned(): << >> is None, <<p>> is Some(p) *)
lookup(map, account_id) ==
    IF account_id \in DOMAIN map THEN <<map[account_id]>> ELSE << >>

(* HashMap::keys_cloned().cloned().collect(): the ids, in no particular order *)
keys_cloned(map) == DOMAIN map

RegistryCall(op, account_id, provider) ==
    [op |-> op, account_id |-> account_id, provider |-> provider]
NoRegistryCall == RegistryCall("none", "", "")

Unit == "()"

ClientIdle == [pc |-> "idle", call |-> NoRegistryCall, inv |-> 0]
Unlocked == [writer |-> "none", readers |-> {}]

(* the calls made so far *)
Invoked == Len(applied) + Cardinality({ c \in Clients : clients[c].pc # "idle" })

(* RwLock::write resolves when nobody holds the lock, RwLock::read when no
   writer does *)
Writes(call) == call.op \in { "register", "unregister" }
CanLock(call) ==
    IF Writes(call) THEN lock = Unlocked ELSE lock.writer = "none"

InitRegistryVars ==
    /\ providers = << >>
    /\ lock = Unlocked
    /\ clients = [c \in Clients |-> ClientIdle]
    /\ applied = << >>

(* a client calls one method at a time *)
CanCall(c) == clients[c].pc = "idle" /\ Invoked < MaxRegistryOps

(* the method starts waiting for the lock *)
Waits(c, call) ==
    /\ clients' = [clients EXCEPT ![c] = [pc |-> "waiting", call |-> call, inv |-> Len(applied)]]
    /\ UNCHANGED <<providers, lock, applied, exceptRegistry>>

Register(c) ==
    /\ CanCall(c)
    /\ \E r \in Registrations : Waits(c, RegistryCall("register", r[1], r[2]))

Unregister(c) ==
    /\ CanCall(c)
    /\ \E account_id \in Unregistered : Waits(c, RegistryCall("unregister", account_id, ""))

Get(c) ==
    /\ CanCall(c)
    /\ \E account_id \in Queried : Waits(c, RegistryCall("get", account_id, ""))

ListAccountIds(c) ==
    /\ CanCall(c)
    /\ Waits(c, RegistryCall("list_account_ids", "", ""))

(* providers.write().await / providers.read().await resolves *)
Acquire(c) ==
    /\ clients[c].pc = "waiting"
    /\ CanLock(clients[c].call)
    /\ lock' = IF Writes(clients[c].call)
               THEN [lock EXCEPT !.writer = c]
               ELSE [lock EXCEPT !.readers = lock.readers \cup { c }]
    /\ clients' = [clients EXCEPT ![c].pc = "holding"]
    /\ UNCHANGED <<providers, applied, exceptRegistry>>

(* the operation on the map under the guard, and the drop of the guard *)
Operate(c) ==
    /\ clients[c].pc = "holding"
    /\ LET call == clients[c].call
           result == CASE call.op = "register" -> Unit
                       [] call.op = "unregister" -> Unit
                       [] call.op = "get" -> lookup(providers, call.account_id)
                       [] call.op = "list_account_ids" -> keys_cloned(providers)
       IN  /\ providers' = CASE call.op = "register" ->
                                   insert(providers, call.account_id, call.provider)
                             [] call.op = "unregister" -> remove(providers, call.account_id)
                             [] OTHER -> providers
           /\ applied' = Append(applied, [client |-> c, call |-> call, result |-> result,
                                          inv |-> clients[c].inv, resp |-> 0])
    /\ lock' = [writer |-> IF lock.writer = c THEN "none" ELSE lock.writer,
                readers |-> lock.readers \ { c }]
    /\ clients' = [clients EXCEPT ![c].pc = "operated"]
    /\ UNCHANGED exceptRegistry

(* the method returns to its caller *)
Return(c) ==
    /\ clients[c].pc = "operated"
    /\ LET k == CHOOSE k \in 1..Len(applied) : applied[k].client = c /\ applied[k].resp = 0
       IN  applied' = [applied EXCEPT ![k].resp = Len(applied)]
    /\ clients' = [clients EXCEPT ![c] = ClientIdle]
    /\ UNCHANGED <<providers, lock, exceptRegistry>>

NextRegistry ==
    \E c \in Clients :
        \/ Register(c)
        \/ Unregister(c)
        \/ Get(c)
        \/ ListAccountIds(c)
        \/ Acquire(c)
        \/ Operate(c)
        \/ Return(c)

InitToolbox == InitCipherVars /\ InitDnssecVars /\ InitCertVars /\ InitSslVars

Init == InitToolbox /\ InitPoolVars /\ InitBatchVars /\ InitMetaVars
        /\ InitRegistryVars

CipherSpec == Init /\ [][NextCipher]_vars

----------------------------------------------------------------------------
(* A process that calls encrypt repeatedly.  Calls on different threads
   share nothing (thread_rng is thread-local), so concurrent calls are the
   same as calls in some order. *)

LogPlaintexts == { <<7>>, <<104, 105>> }
LogPasswords == { <<97>> }

EncryptLogged ==
    /\ Len(log) < MaxCalls
    /\ \E m \in LogPlaintexts, pw \in LogPasswords,
          rs \in RandomBytes(SALT_LENGTH), rn \in RandomBytes(NONCE_LENGTH) :
          log' = Append(log, Call(m, pw, rs, rn))
    /\ UNCHANGED <<cpc, enc, dec, dnssecVars, certVars, sslVars, serviceVars>>

NextRng == EncryptLogged

RngSpec == Init /\ [][NextRng]_vars

DnssecSpec == Init /\ [][NextDnssec]_vars

CertSpec == Init /\ [][NextCert]_vars

SslSpec == Init /\ [][NextSsl]_vars

(* the scheduler runs the blocking task to its end: every step that can be
   taken is taken *)
SslLiveSpec == Init /\ [][NextSsl]_vars /\ WF_vars(NextSsl)

BatchSpec == Init /\ [][NextBatch]_vars

MetaSpec == Init /\ [][NextMeta]_vars

MetaRaceSpec == Init /\ [][NextMetaRace]_vars

RegistrySpec == Init /\ [][NextRegistry]_vars

PoolSpec == Init /\ [][NextPool]_vars

(* a pool thread that can take a step takes it, and a resolved JoinHandle is
   polled *)
PoolLiveSpec == Init /\ [][NextAwaited]_vars /\ \A i \in Inspections : WF_vars(WorkerStep(i))

----------------------------------------------------------------------------
(* The credential cipher: what is checked *)

Decoded(text) == Base64Decode(text)
InputsDecode == Decoded(dec.salt).ok /\ Decoded(dec.nonce).ok /\ Decoded(dec.ciphertext).ok

(* The digests stand for collision-free primitives: on the inputs explored,
   decrypt opens nothing but the stored ciphertext, under the stored salt
   and nonce and a password with the stored password's key block. *)
NoDigestCollision ==
    (cpc = "decrypted" /\ dec.result.kind = "ok") =>
        /\ dec.ciphertext = enc.ciphertext
        /\ dec.salt = enc.salt
        /\ dec.nonce = enc.nonce
        /\ HmacKeyBlock(dec.password) = HmacKeyBlock(enc.password)

(* C1: decrypt of the triple that encrypt(M, P) returned, with the same
   password P, succeeds and returns exactly M. *)
C1_RoundTrip ==
    (cpc = "decrypted" /\ dec.how = "stored" /\ dec.password = enc.password)
        => dec.result = Ok(enc.plaintext)

C1_Witness ==
    /\ cpc = "decrypted" /\ dec.how = "stored"
    /\ dec.password = enc.password
    /\ enc.plaintext = <<104, 105>>
    /\ dec.result.kind = "ok"

(* C2 as stated: decrypt of the stored triple with any password other than
   the one it was encrypted with fails and returns no plaintext bytes. *)
C2_AnyOtherPasswordFails ==
    (cpc = "decrypted" /\ dec.how = "stored" /\ dec.password # enc.password)
        => (dec.result.kind = "err" /\ dec.result.bytes = << >>)

(* C2 amended: decrypt of the stored triple with a password whose HMAC key
   block differs from the encrypting password's fails with the one
   "Decryption failed" error and returns no bytes; a password with the same
   key block (the same password followed by NUL bytes) opens the triple. *)
C2_OtherKeyBlockFails ==
    (cpc = "decrypted" /\ dec.how = "stored") =>
        IF HmacKeyBlock(dec.password) # HmacKeyBlock(enc.password)
        THEN dec.result = Err("SerializationError", DecryptionFailed)
        ELSE dec.result = Ok(enc.plaintext)

C2_Witness ==
    /\ cpc = "decrypted" /\ dec.how = "stored"
    /\ HmacKeyBlock(dec.password) # HmacKeyBlock(enc.password)
    /\ enc.plaintext # << >>
    /\ dec.result.kind = "err"

(* C3 as stated: after any single byte of the salt, the nonce or the
   ciphertext was changed, decrypt with the right password returns an
   error. *)
C3_TamperRejected ==
    (cpc = "decrypted" /\ dec.how \in {"symbol", "byte"})
        => dec.result.kind = "err"

(* What does hold of a tampered triple: no plaintext is returned, a changed
   byte of the decoded data is always answered by the "Decryption failed"
   error, and decrypt panics exactly when the changed nonce text decodes to
   other than NONCE_LENGTH bytes. *)
TamperNeverOpens ==
    (cpc = "decrypted" /\ dec.how \in {"symbol", "byte"}) =>
        /\ dec.result.kind \in {"err", "panic"}
        /\ dec.result.bytes = << >>
        /\ dec.how = "byte" => dec.result = Err("SerializationError", DecryptionFailed)
        /\ dec.result.kind = "panic" <=>
              (InputsDecode /\ Len(Decoded(dec.nonce).bytes) # NONCE_LENGTH)

C6_DecryptTotal ==
    cpc = "decrypted" => dec.result.kind \in {"ok", "err"}

(* C5 as stated: no two encrypt calls produce the same (salt, nonce) pair. *)
C5_NeverSamePair ==
    \A i, j \in 1..Len(log) :
        i # j => <<log[i].salt, log[i].nonce>> # <<log[j].salt, log[j].nonce>>

(* C5 amended: every call returns the salt and the nonce it drew from the
   generator in that call, so two calls return the same pair only when the
   generator gave both the same bytes. *)
C5_FreshDraws ==
    \A i \in 1..Len(log) :
        /\ log[i].salt = Base64Encode(log[i].rngSalt)
        /\ log[i].nonce = Base64Encode(log[i].rngNonce)
        /\ \A j \in 1..Len(log) :
              (log[i].salt = log[j].salt /\ log[i].nonce = log[j].nonce)
                  => (log[i].rngSalt = log[j].rngSalt /\ log[i].rngNonce = log[j].rngNonce)

C5_Witness ==
    /\ Len(log) >= 2
    /\ log[1].plaintext = log[2].plaintext
    /\ log[1].password = log[2].password
    /\ <<log[1].salt, log[1].nonce>> # <<log[2].salt, log[2].nonce>>

----------------------------------------------------------------------------
(* dnssec_check: what is checked *)

Returned == dpc = "done" /\ dresult.kind = "ok"
Failed(i) == ~queries[i].ok
SomeCollectionFilled == dnskey_records # << >> \/ ds_records # << >> \/ rrsig_records # << >>

(* C7 as stated: in a returned result dnssec_enabled is true exactly when
   one of dnskey_records, ds_records and rrsig_records is non-empty. *)
C7_EnabledIffRecords ==
    Returned => (dresult.value.dnssec_enabled <=> SomeCollectionFilled)

(* What does hold of dnssec_enabled: it is true exactly when the DNSKEY
   lookup or the DS lookup succeeded or the SOA lookup answered with a record
   of type RRSIG, whatever those answers carried; a filled collection implies
   it. *)
EnabledWhenAnswered ==
    Returned =>
        /\ dresult.value.dnssec_enabled <=>
              \/ queries[1].ok
              \/ queries[2].ok
              \/ \E i \in 1..Len(queries[3].records) : queries[3].records[i].rtype = "RRSIG"
        /\ SomeCollectionFilled => dresult.value.dnssec_enabled

(* C8: the returned validation_status is "secure" exactly when dnskey_records
   and ds_records are both non-empty, "indeterminate" exactly when one of the
   two is non-empty, and "insecure" exactly when both are empty, whatever
   rrsig_records holds. *)
C8_VerdictTable ==
    Returned =>
        LET v == dresult.value
            keys == v.dnskey_records # << >>
            dss == v.ds_records # << >>
        IN  /\ v.validation_status \in {"secure", "indeterminate", "insecure"}
            /\ v.validation_status = "secure" <=> (keys /\ dss)
            /\ v.validation_status = "indeterminate" <=> (keys # dss)
            /\ v.validation_status = "insecure" <=> (~keys /\ ~dss)

C8_Witness ==
    /\ Returned
    /\ dresult.value.dnskey_records = << >>
    /\ dresult.value.ds_records = << >>
    /\ dresult.value.rrsig_records # << >>
    /\ dresult.value.dnssec_enabled
    /\ dresult.value.validation_status = "insecure"

(* C9: once the resolver is configured the call issues the DNSKEY, the DS and
   the SOA lookup in that order whatever the earlier ones gave, and returns
   Ok with error absent; a failed lookup leaves its collection empty, and
   when all three fail the result has dnssec_enabled false and status
   "insecure". *)
C9_AllLookupsIssued ==
    /\ dpc = "dnskey" => queries = << >>
    /\ dpc = "ds" => Len(queries) = 1
    /\ dpc = "soa" => Len(queries) = 2
    /\ (dpc = "done" /\ SelectResolver(nameserver).ok) =>
          /\ dresult.kind = "ok"
          /\ dresult.value.error = None
          /\ Len(queries) = 3
          /\ <<queries[1].qtype, queries[2].qtype, queries[3].qtype>> = <<"DNSKEY", "DS", "SOA">>
          /\ Failed(1) => dresult.value.dnskey_records = << >>
          /\ Failed(2) => dresult.value.ds_records = << >>
          /\ Failed(3) => dresult.value.rrsig_records = << >>
          /\ (Failed(1) /\ Failed(2) /\ Failed(3)) =>
                /\ ~dresult.value.dnssec_enabled
                /\ dresult.value.validation_status = "insecure"

C9_Witness ==
    /\ Returned
    /\ Len(queries) = 3
    /\ Failed(1) /\ Failed(2) /\ Failed(3)
    /\ ~dresult.value.dnssec_enabled
    /\ dresult.value.validation_status = "insecure"
    /\ dresult.value.error = None

(* C10: a nameserver argument that is non-empty and does not parse as an IP
   address makes the call return ValidationError, naming the argument, with
   no lookup issued. *)
C10_BadNameserverRejected ==
    (dpc # "idle" /\ nameserver.some /\ nameserver.text # << >>
                  /\ ~ParsesIpAddr(nameserver.text)) =>
        /\ dpc = "done"
        /\ dresult.kind = "err"
        /\ dresult.variant = "ValidationError"
        /\ dresult.msg = InvalidDnsServer \o nameserver.text
        /\ queries = << >>

C10_Witness ==
    /\ dpc = "done"
    /\ nameserver = Some(<<"1", ".", "1", ".", "1", ".", "1", ":", "5", "3">>)
    /\ dresult.kind = "err"
    /\ dresult.variant = "ValidationError"
    /\ queries = << >>

(* the nameserver texts the resolver is built from are the IP literals *)
AcceptedNameservers ==
    { ns \in Nameservers : SelectResolver(ns).ok } =
        { None, Some(<< >>), Some(<<"1", ".", "1", ".", "1", ".", "1">>),
          Some(<<":", ":", "1">>),
          Some(<<":", ":", "f", "f", "f", "f", ":", "1", ".", "2", ".", "3", ".", "4">>) }

(* C11: an absent nameserver and an empty one both build the resolver from
   the default configuration and report the default servers' addresses
   joined by ", ", or "System Default" when the configuration lists none; a
   valid IP literal makes every lookup go to that server only and is
   reported as given. *)
C11_ResolverSelection ==
    dpc # "idle" =>
        /\ (~nameserver.some \/ nameserver.text = << >>) =>
              /\ resolver = default_config
              /\ used_nameserver = IF default_config = << >> THEN SystemDefault
                                   ELSE Join(default_config, <<",", " ">>)
              /\ \A i \in 1..Len(queries) : queries[i].servers = default_config
        /\ (nameserver.some /\ nameserver.text # << >> /\ ParsesIpAddr(nameserver.text)) =>
              /\ resolver # << >>
              /\ \A k \in 1..Len(resolver) : resolver[k] = nameserver.text
              /\ used_nameserver = nameserver.text
              /\ \A i \in 1..Len(queries) : queries[i].servers = resolver
        /\ Returned => dresult.value.nameserver = used_nameserver

C11_Witness ==
    /\ Returned
    /\ nameserver = Some(<< >>)
    /\ default_config = << >>
    /\ dresult.value.nameserver = SystemDefault
    /\ Len(queries) = 3

----------------------------------------------------------------------------
(* ssl_check: what is checked *)

SslReturned == spc = "done"
Did(op) == \E i \in 1..Len(ops) : ops[i].op = op
Succeeded(op) == \E i \in 1..Len(ops) : ops[i].op = op /\ ops[i].ok
FailedOp(op) == \E i \in 1..Len(ops) : ops[i].op = op /\ ~ops[i].ok

(* C12: a returned SslCheckResult has connection_status https, http or
   failed; cert_info is present only with https and then error is absent;
   http has neither cert_info nor error; failed has no cert_info and has an
   error. *)
C12_ResultConsistent ==
    SslReturned =>
        /\ sresult.connection_status \in {"https", "http", "failed"}
        /\ sresult.cert_info # << >> =>
              (sresult.connection_status = "https" /\ sresult.error = << >>)
        /\ sresult.connection_status = "http" =>
              (sresult.cert_info = << >> /\ sresult.error = << >>)
        /\ sresult.connection_status = "failed" =>
              (sresult.cert_info = << >> /\ sresult.error # << >>)

C12_Witness ==
    /\ SslReturned
    /\ sresult.connection_status = "https"
    /\ sresult.cert_info # << >>
    /\ sresult.error = << >>

(* the probe read an answer that begins with "HTTP/" *)
ProbeAnsweredHttp ==
    \E i \in 1..Len(ops) :
        /\ ops[i].op = "probe_read"
        /\ ops[i].ok
        /\ Len(ops[i].bytes) >= 5
        /\ <<ops[i].bytes[1], ops[i].bytes[2], ops[i].bytes[3], ops[i].bytes[4],
             ops[i].bytes[5]>> = <<"H", "T", "T", "P", "/">>

(* C13: when the TCP connection succeeds and the TLS handshake fails, the
   plain-HTTP probe is performed and alone decides the outcome: http, with no
   cert_info, exactly when the probe's answer begins with "HTTP/", failed
   otherwise; the probe is never performed after a successful handshake or a
   failed connect. *)
C13_ProbeDecides ==
    /\ Did("probe_connect") => (SslReturned /\ Succeeded("connect") /\ ~Succeeded("handshake"))
    /\ SslReturned =>
          /\ FailedOp("handshake") => (Succeeded("connect") /\ Did("probe_connect"))
          /\ FailedOp("connect") => ~Did("probe_connect")
          /\ Succeeded("handshake") => ~Did("probe_connect")
          /\ Did("probe_connect") =>
                /\ sresult.connection_status = (IF ProbeAnsweredHttp THEN "http" ELSE "failed")
                /\ sresult.cert_info = << >>
          /\ sresult.connection_status = "http" => Did("probe_connect")

C13_Witness ==
    /\ SslReturned
    /\ Succeeded("connect")
    /\ FailedOp("handshake")
    /\ ProbeAnsweredHttp
    /\ sresult.connection_status = "http"
    /\ sresult.cert_info = << >>

(* a peer that accepts the connection, completes TLS and presents a
   well-formed certificate that fails local trust validation, on a call whose
   TLS setup succeeded and whose TLS library hands the certificate over *)
UntrustedPeerInspected ==
    /\ SslReturned
    /\ Did("handshake")
    /\ peer.tls = "completes"
    /\ peer.silent_at = "never"
    /\ peer.trust \in {"self-signed", "expired", "unknown-ca"}
    /\ peer.chain # << >>
    /\ peer.chain[1].der_ok
    /\ ~FailedOp("peer_certificate")
    /\ ~FailedOp("to_der")

(* C14 as stated: for a peer that completes TLS with a self-signed, expired
   or unknown-CA certificate the inspection ends with connection_status https
   and cert_info present, in the native-tls build and in the rustls build. *)
C14_UntrustedAccepted ==
    UntrustedPeerInspected =>
        (sresult.connection_status = "https" /\ sresult.cert_info # << >>)

(* What does hold: the native-tls build accepts such a certificate; the
   rustls build verifies it against the bundled roots, fails the handshake
   and ends with http or failed, as the probe decides. *)
UntrustedByBuild ==
    UntrustedPeerInspected =>
        IF build = "native-tls"
        THEN sresult.connection_status = "https" /\ sresult.cert_info # << >>
        ELSE /\ FailedOp("handshake")
             /\ sresult.connection_status \in {"http", "failed"}
             /\ sresult.cert_info = << >>

----------------------------------------------------------------------------
(* parse_certificate and name matching: what is checked *)

(* the queried name q matches the certificate name: ignoring case they are
   equal, or the name is "*." followed by a suffix and q is a label without
   a dot, a dot, and that suffix *)
NameMatches(q, name) ==
    LET ql == to_lowercase(q)
        nl == to_lowercase(name)
    IN  \/ ql = nl
        \/ /\ Len(nl) >= 2
           /\ nl[1] = "*"
           /\ nl[2] = "."
           /\ \E k \in 0..(Len(ql) - 1) :
                 /\ \A i \in 1..k : ql[i] # "."
                 /\ ql[k + 1] = "."
                 /\ SubSeq(ql, k + 2, Len(ql)) = SubSeq(nl, 3, Len(nl))

(* the queried name matches the Common Name the code reads or a DNS SAN *)
CertificateMatches(q, cert) ==
    \/ cert.cns # << >> /\ cert.cns[1].some /\ NameMatches(q, cert.cns[1].text)
    \/ \E i \in 1..Len(cert.general_names) :
          /\ cert.general_names[i].kind = "DNS"
          /\ NameMatches(q, cert.general_names[i].text)

Expired(cert, now) == cert.not_after < now

(* C15 as stated: is_expired is (days_remaining < 0), is_valid is (not
   is_expired and the queried name matches the Common Name or a SAN entry);
   an unexpired certificate that does not match is never reported valid, and
   an expired certificate is never reported valid. *)
C15_ValidityVerdict ==
    parsed.called =>
        /\ parsed.info.is_expired = (parsed.info.days_remaining < 0)
        /\ parsed.info.is_valid =
              (~parsed.info.is_expired /\ CertificateMatches(parsed.query, parsed.cert))
        /\ ~CertificateMatches(parsed.query, parsed.cert) => ~parsed.info.is_valid
        /\ Expired(parsed.cert, parsed.now) => ~parsed.info.is_valid

(* What does hold: the relations between the fields, and that a certificate
   reported expired is never reported valid. *)
ValidityFields ==
    parsed.called =>
        /\ parsed.info.is_expired = (parsed.info.days_remaining < 0)
        /\ parsed.info.is_valid =
              (~parsed.info.is_expired /\ CertificateMatches(parsed.query, parsed.cert))
        /\ parsed.info.is_expired => ~parsed.info.is_valid

(* C16: the queried name matches a certificate name, compared without
   regard to case, exactly when the two are equal or the certificate name is
   "*.suffix" and the queried name is "label.suffix" with no dot in label. *)
C16_NameMatching ==
    matched.called => (matched.result <=> NameMatches(matched.query, matched.name))

C16_Witness ==
    /\ matched.called
    /\ matched.name = <<"*", ".", "a", ".", "a">>
    /\ matched.query = <<"a", "a", ".", "A", ".", "a">>
    /\ matched.result

(* "*.a.a" matches neither "a.a.a.a" nor "a.a", and "a.a" matches "a.a" *)
C16_Examples ==
    /\ ~check_domain_match(<<"a", ".", "a", ".", "a", ".", "a">>,
                           Some(<<"*", ".", "a", ".", "a">>), << >>)
    /\ ~check_domain_match(<<"a", ".", "a">>, Some(<<"*", ".", "a", ".", "a">>), << >>)
    /\ check_domain_match(<<"a", ".", "a">>, Some(<<"a", ".", "a">>), << >>)
    /\ check_domain_match(<<"a", ".", "a", ".", "a">>, None,
                          <<<<"b">>, <<"*", ".", "A", ".", "A">>>>)

(* the first DNS name among the certificate's SAN entries is d *)
FirstDnsSan(cert, d) ==
    \E i \in 1..Len(cert.general_names) :
        /\ cert.general_names[i] = DnsName(d)
        /\ \A j \in 1..(i - 1) : cert.general_names[j].kind # "DNS"
NoDnsSan(cert) ==
    \A i \in 1..Len(cert.general_names) : cert.general_names[i].kind # "DNS"

(* C17 as stated: cert_info.domain is the subject's first Common Name when
   the subject has one, otherwise the first SAN entry when there is one,
   otherwise the queried string. *)
C17_DomainPriority ==
    parsed.called =>
        IF parsed.cert.cns # << >>
        THEN parsed.cert.cns[1].some /\ parsed.info.domain = parsed.cert.cns[1].text
        ELSE IF parsed.info.san # << >> THEN parsed.info.domain = parsed.info.san[1]
        ELSE parsed.info.domain = parsed.query

(* C17 amended: cert_info.domain is the subject's first Common Name
   attribute when the subject has one and its value is a string the parser
   can borrow; otherwise, also when later Common Names are readable, the
   first DNS name among the SAN entries; otherwise the queried string. *)
C17_ReadableDomainPriority ==
    parsed.called =>
        IF parsed.cert.cns # << >> /\ parsed.cert.cns[1].some
        THEN parsed.info.domain = parsed.cert.cns[1].text
        ELSE IF NoDnsSan(parsed.cert) THEN parsed.info.domain = parsed.query
        ELSE FirstDnsSan(parsed.cert, parsed.info.domain)

C17_Witness ==
    /\ parsed.called
    /\ parsed.cert.cns = <<None, Some(NameAB)>>
    /\ parsed.cert.general_names = <<IpAddress(Ip8888), DnsName(NameWildB)>>
    /\ parsed.info.domain = NameWildB

----------------------------------------------------------------------------
(* ssl_check: the certificate chain and termination *)

PresentedChain == [i \in 1..Len(peer.chain) |-> CertChainItem(peer.chain[i].cert)]

(* C18 as stated: certificate_chain has one {subject, issuer, is_ca} entry
   for every certificate the peer presented, leaf first, in the native-tls
   build and in the rustls build alike. *)
C18_WholeChain ==
    (SslReturned /\ sresult.cert_info # << >>) =>
        sresult.cert_info[1].certificate_chain = PresentedChain

(* What does hold: the native-tls build reports the leaf alone, whatever was
   presented; the rustls build reports the presented certificates that parse,
   in order. *)
ChainByBuild ==
    (SslReturned /\ sresult.cert_info # << >>) =>
        LET chain == sresult.cert_info[1].certificate_chain
            parsing == { i \in 1..Len(peer.chain) : peer.chain[i].der_ok }
        IN  IF build = "native-tls"
            THEN chain = <<CertChainItem(peer.chain[1].cert)>>
            ELSE /\ Len(chain) = Cardinality(parsing)
                 /\ chain[1] = CertChainItem(peer.chain[1].cert)
                 /\ parsing = 1..Len(peer.chain) => chain = PresentedChain

(* C19 as stated: a certificate whose valid_to lies before the current time,
   by any amount, is reported with is_expired true and days_remaining < 0. *)
C19_ExpiredReported ==
    (parsed.called /\ Expired(parsed.cert, parsed.now)) =>
        (parsed.info.is_expired /\ parsed.info.days_remaining < 0)

(* What does hold: a certificate whose valid_to can be formatted is reported
   expired exactly when valid_to lies a whole day or more before the current
   time; days_remaining is the difference in days, rounded toward zero. *)
ExpiredAfterOneDay ==
    (parsed.called /\ parsed.cert.formats) =>
        /\ parsed.info.is_expired <=> (parsed.now - parsed.cert.not_after >= SECONDS_PER_DAY)
        /\ parsed.info.days_remaining * SECONDS_PER_DAY
              \in (IF parsed.cert.not_after >= parsed.now
                   THEN (parsed.cert.not_after - parsed.now - SECONDS_PER_DAY + 1)
                            ..(parsed.cert.not_after - parsed.now)
                   ELSE (parsed.cert.not_after - parsed.now)
                            ..(parsed.cert.not_after - parsed.now + SECONDS_PER_DAY - 1))

(* C20 as stated: every inspection eventually returns, even if the peer
   stops responding at any step, because every blocking step is bounded by a
   timeout. *)
C20_EventuallyReturns == (spc = "connect") ~> (spc = "done")

(* What does hold: the inspection returns when the peer answers every call,
   or falls silent at a call the code has set a timeout for. *)
ReturnsWhenBounded ==
    (spc = "connect" /\ peer.silent_at \in TimedOps \cup {"never"}) ~> (spc = "done")

----------------------------------------------------------------------------
(* ssl_check as a task *)

AllOnPool == \A r \in ran : r[2] = "blocking"

(* the inspections that were handed a host which never answers the
   connection attempt *)
StalledSet == { j \in Inspections : hosts[j] = "unresponsive" /\ worker[j] \in { "queued", "connect" } }

(* C21: every blocking socket operation of ssl_check runs on a thread of the
   blocking pool, never on the scheduler, and while one inspection is stalled
   on a host that does not answer, every other inspection handed to the pool
   runs to the end of its closure. *)
C21_OthersComplete ==
    /\ []AllOnPool
    /\ \A i \in Inspections :
          (worker[i] = "queued" /\ hosts[i] # "unresponsive")
              ~> (worker[i] = "exit" \/ Cardinality(StalledSet) > 1)

(* one inspection is stalled in connect while another is past its handshake
   on a second pool thread *)
C21_Witness ==
    \E i, j \in Inspections :
        /\ i # j
        /\ Stalls(i)
        /\ worker[j] = "request"
        /\ <<"handshake", "blocking">> \in ran

(* C22: once the caller has dropped the future of an ssl_check whose TCP
   socket was open, the socket is no longer open: the cancellation itself
   releases it. *)
C22_CancelReleasesSocket ==
    \A i \in Inspections : caller[i] = "dropped" => sockets[i] # "open"

----------------------------------------------------------------------------
(* dnssec_check: the records of a response *)

(* the positions of the records of a response that carry a signature, in
   the RRSIG form or in the legacy SIG form *)
Signatures(records) ==
    { k \in 1..Len(records) : records[k].data \in { "RRSIG", "SIG" } }

(* C23: in the SOA step a record of the legacy SIG form is processed as an
   RRSIG record is: each signature record of the response, of either form,
   sets dnssec_enabled and appends one entry to rrsig_records. *)
C23_SigLikeRrsig ==
    (Returned /\ queries[3].ok) =>
        LET signatures == Signatures(queries[3].records)
        IN  /\ signatures # {} => dresult.value.dnssec_enabled
            /\ Len(dresult.value.rrsig_records) = Cardinality(signatures)

(* a record of the kind asked for whose fields can all be extracted *)
WellFormed(record, kind) == record.data = kind /\ record.tagOk

RECURSIVE Kept(_, _)
Kept(records, kind) ==
    IF records = << >> THEN << >>
    ELSE (IF WellFormed(Head(records), kind) THEN <<Head(records)>> ELSE << >>)
         \o Kept(Tail(records), kind)

(* C24: a record of a multi-record response that fails to parse (its data is
   of an unexpected type, or it is a DNSKEY whose key tag cannot be computed)
   adds no entry; the other records are processed in order, and the
   inspection goes on to return. *)
C24_MalformedSkipped ==
    /\ (Len(queries) >= 1 /\ queries[1].ok) =>
          LET kept == Kept(queries[1].records, "DNSKEY")
          IN  dnskey_records = [k \in 1..Len(kept) |-> DnskeyRecord(kept[k])]
    /\ (Len(queries) >= 2 /\ queries[2].ok) =>
          LET kept == Kept(queries[2].records, "DS")
          IN  ds_records = [k \in 1..Len(kept) |-> DsRecord(kept[k])]
    /\ (dpc = "done" /\ SelectResolver(nameserver).ok) => (Returned /\ Len(queries) = 3)

----------------------------------------------------------------------------
(* ssl_check: the connections of one inspection *)

(* the TCP connection attempts made so far *)
Connections ==
    { i \in 1..Len(ops) : ops[i].op \in { "connect", "probe_connect" } }

(* C25: when the TLS handshake fails the plain-HTTP probe goes over the
   socket the Connect step opened: one inspection makes exactly one TCP
   connection and never a second. *)
C25_OneConnection ==
    /\ Cardinality(Connections) <= 1
    /\ (SslReturned /\ FailedOp("handshake")) =>
          (Cardinality(Connections) = 1 /\ ~Did("probe_connect"))

----------------------------------------------------------------------------
(* batch_delete_records *)

(* the positions of the request whose deletion failed, in request order *)
RECURSIVE FailedPositions(_)
FailedPositions(n) ==
    IF n = 0 THEN << >>
    ELSE FailedPositions(n - 1) \o (IF outcomes[n] # "ok" THEN <<n>> ELSE << >>)

(* C26: for a registered account batch_delete_records attempts the deletion
   of every requested id whatever the others gave and returns Ok, even when
   all fail; success_count + failed_count is the number of requested ids,
   failed_count is the length of failures, and failures lists exactly the
   ids whose deletion failed, in request order. *)
C26_BatchAccounting ==
    (bpc = "done" /\ registered) =>
        LET value == bresult.value
            failed == FailedPositions(Len(record_ids))
        IN  /\ bresult.kind = "ok"
            /\ \A k \in 1..Len(record_ids) : outcomes[k] # "pending"
            /\ value.success_count + value.failed_count = Len(record_ids)
            /\ value.failed_count = Len(value.failures)
            /\ Len(value.failures) = Len(failed)
            /\ \A j \in 1..Len(failed) :
                  /\ value.failures[j].record_id = record_ids[failed[j]]
                  /\ value.failures[j].reason = outcomes[failed[j]]

(* every deletion failed, the last requested id first, and the result is Ok *)
C26_Witness ==
    /\ bpc = "done"
    /\ registered
    /\ bresult.kind = "ok"
    /\ Len(record_ids) >= 2
    /\ record_ids[1] # record_ids[2]
    /\ \A k \in 1..Len(record_ids) : outcomes[k] # "ok"
    /\ completed[1] = Len(record_ids)
    /\ bresult.value.success_count = 0

----------------------------------------------------------------------------
(* domain metadata *)

StoredTags == get_metadata(clock).tags
Favorite == get_metadata(clock).is_favorite
Stamp == get_metadata(clock).favorited_at

(* C27: starting from a domain with no stored metadata, after any sequence
   of add_tag, remove_tag and set_tags calls made one after the other,
   accepted or rejected with ValidationError, the stored tag list is sorted
   ascending, has no duplicates and at most 10 entries, and each entry is a
   trimmed non-empty string of length at most 50. *)
C27_TagsWellFormed ==
    /\ \A k \in 1..(Len(StoredTags) - 1) :
          StoredTags[k] = StoredTags[k + 1] \/ TagLess(StoredTags[k], StoredTags[k + 1])
    /\ \A k, m \in 1..Len(StoredTags) : k # m => StoredTags[k] # StoredTags[m]
    /\ Len(StoredTags) <= MAX_TAGS
    /\ \A k \in 1..Len(StoredTags) :
          /\ StoredTags[k] # << >>
          /\ trim(StoredTags[k]) = StoredTags[k]
          /\ Len(StoredTags[k]) <= MAX_TAG_LENGTH
    /\ last.outcome.kind = "err" => last.outcome.variant = "ValidationError"

(* ten tags are stored, the first of them added out of order, and an
   eleventh, valid one was just rejected *)
C27_Witness ==
    /\ Len(StoredTags) = MAX_TAGS
    /\ last.call.op = "add_tag"
    /\ trim(last.call.tag) # << >>
    /\ Len(trim(last.call.tag)) <= MAX_TAG_LENGTH
    /\ ~contains(StoredTags, trim(last.call.tag))
    /\ last.outcome.variant = "ValidationError"

(* what a reader of the metadata sees of the updates *)
Visible(metadata) == [is_favorite |-> metadata.is_favorite, tags |-> metadata.tags]

(* the metadata after the call, made alone on the metadata given *)
After(call, metadata) ==
    LET outcome == Handle(call, metadata, 0)
    IN  IF outcome.save = << >> THEN metadata ELSE outcome.save[1]

Fresh == DomainMetadata(FALSE, << >>, << >>, 0)
OneThenOther(one, other) == Visible(After(other, After(one, Fresh)))

(* C28: when two updates of the metadata of one key run concurrently and
   both return Ok, neither is lost: what is stored is what the two calls
   give made one after the other, in one order or the other; after two
   add_tag calls with distinct valid tags both tags are stored. *)
C28_NoLostUpdate ==
    (\A p \in Tasks : tasks[p].pc = "done" /\ tasks[p].outcome.kind = "ok") =>
        Visible(get_metadata(clock)) \in { OneThenOther(tasks[1].call, tasks[2].call),
                                          OneThenOther(tasks[2].call, tasks[1].call) }

(* C29: across the toggle_favorite calls on one domain favorited_at is
   written once, at the first transition to favorite, with the time of that
   call, and no later call changes it: un-favoriting does not clear it and
   favoriting again does not overwrite it. *)
C29_FavoritedAtWrittenOnce ==
    [][/\ Stamp # << >> => Stamp' = Stamp
       /\ (Stamp = << >> /\ Favorite') => Stamp' = <<clock'>>
       /\ (Stamp = << >> /\ ~Favorite') => Stamp' = << >>]_vars

(* the domain was just made a favorite again and favorited_at is older than
   that call *)
C29_Witness ==
    /\ last.call.op = "toggle_favorite"
    /\ Favorite
    /\ Stamp # << >>
    /\ Stamp[1] + 2 <= clock

----------------------------------------------------------------------------
(* provider registry *)

(* a map as a set of (account id, provider) pairs, and what each method does
   to it and answers on it *)
MapStep(pairs, call) ==
    CASE call.op = "register" ->
             { pr \in pairs : pr[1] # call.account_id } \cup { <<call.account_id, call.provider>> }
      [] call.op = "unregister" -> { pr \in pairs : pr[1] # call.account_id }
      [] OTHER -> pairs

MapAnswer(pairs, call) ==
    CASE call.op = "get" ->
             IF \E pr \in pairs : pr[1] = call.account_id
             THEN <<(CHOOSE pr \in pairs : pr[1] = call.account_id)[2]>>
             ELSE << >>
      [] call.op = "list_account_ids" -> { pr[1] : pr \in pairs }
      [] OTHER -> Unit

(* the map after the first k calls of applied, made one after the other *)
RECURSIVE MapAfter(_)
MapAfter(k) == IF k = 0 THEN {} ELSE MapStep(MapAfter(k - 1), applied[k].call)

(* C30: under any interleaving of concurrent register, unregister, get and
   list_account_ids calls the registry behaves as a linearizable map: the
   calls can be put in one order, each between its invocation and its
   return, in which every call answers as a map does on which the calls
   before it were made one after the other. *)
C30_Linearizable ==
    /\ \A k \in 1..Len(applied) :
          /\ applied[k].result = MapAnswer(MapAfter(k - 1), applied[k].call)
          /\ applied[k].inv < k
          /\ applied[k].resp # 0 => k <= applied[k].resp
    /\ \A j, k \in 1..Len(applied) :
          (applied[j].resp # 0 /\ applied[j].resp <= applied[k].inv) => j < k
    /\ { <<a, providers[a]>> : a \in DOMAIN providers } = MapAfter(Len(applied))

(* a get that was called before a concurrent register acted, acted after it
   and found the provider *)
C30_Witness ==
    \E j, k \in 1..Len(applied) :
        /\ j < k
        /\ applied[k].inv < j
        /\ applied[j].client # applied[k].client
        /\ applied[j].call.op = "register"
        /\ applied[k].call.op = "get"
        /\ applied[k].result = <<applied[j].call.provider>>
        /\ applied[j].resp # 0
        /\ applied[k].resp # 0

=============================================================================
